---------------------------- MODULE Spec2Model ----------------------------
(***************************************************************************)
(* A model of the cluster-coordination core of cbgt:                       *)
(*                                                                         *)
(*  - the VLite engine's per-partition sequence tracking and its           *)
(*    consistency-wait queue (src/pindex_impl_vlite.go, and the waiter     *)
(*    side in src/unnamed/part_001);                                       *)
(*  - ConsistencyWaitGroup (src/unnamed/part_001);                         *)
(*  - the planner's split of an index into PlanPIndexes                    *)
(*    (src/unnamed/part_000).                                              *)
(*                                                                         *)
(* Each part has its own specification over the module's variables; the    *)
(* variables of the other parts stay at their initial values.              *)
(***************************************************************************)
EXTENDS Integers, Sequences, FiniteSets, TLC

VARIABLES
    \* ---- VLite engine (type VLite, type VLitePartition) ----
    store,        \* "open" | "closed": t.store != nil
    memOnly,      \* t.file == nil (index type "vlite-mem")
    partitions,   \* keys of t.partitions
    seqMax,       \* VLitePartition.seqMax, per handle
    seqMaxBatch,  \* VLitePartition.seqMaxBatch, per handle
    seqSnapEnd,   \* VLitePartition.seqSnapEnd, per handle
    lastUUID,     \* VLitePartition.lastUUID, per handle
    cwrQueue,     \* VLitePartition.cwrQueue, per handle: heap array of requests
    seqColl,      \* t.seqColl: persisted seqMax per partition key
    opaqueColl,   \* t.opaqueColl: persisted opaque per partition key
    drain,        \* handles the goroutine of closeUnlocked still has to visit
    restarted,    \* t.restart() was called
    panicked,     \* "none", or the runtime panic that ended the process
    \* ---- feed side: a Dest call in flight ----
    feed,         \* per feed: "idle", or the handle it got from VLite.Dest
    \* ---- one ConsistencyWait call per waiter ----
    pc,           \* position of the call
    req,          \* its arguments
    doneCh,       \* cwr.DoneCh: [buf, closed]
    cancelCh,     \* TRUE once cancelCh is closed
    seqStart,     \* seqStart of ConsistencyWaitDone
    result,       \* what the call returned
    atClose,      \* history: the requests queued when closeUnlocked ran
    entry,        \* history: what the call found when it took t.m
    \* ---- ConsistencyWaitGroup ----
    gParams,      \* consistencyParams: [present, level, vectors, vector]
    gPIndexes,    \* localPIndexes: the sourcePartitionsMap of each
    gCancel,      \* TRUE once cancelCh is closed
    gpc,          \* "loop" | "done" ("off" when the group is not run)
    gIdx,         \* how many localPIndexes the loop has been through
    gErr,         \* errConsistency
    gResult,      \* what ConsistencyWaitGroup returned
    gWorker,      \* per localPIndex, its goroutine: [pc, left, key, err]
    gCalls,       \* history: the ConsistencyWait calls that succeeded
    gErrLog,      \* history: the errors in the order they were stored
    \* ---- planner split ----
    sIndexDef,    \* indexDef: [name, uuid, max]
    sParts,       \* what DataSourcePartitions returns
    sOut,         \* planPIndexesOut.PlanPIndexes, keyed by name
    sDone,        \* "no" | "ok" | "err"
    \* ---- config store, as the planner and the rebalancer see it ----
    cfgVersion,   \* the version key CheckVersion compares with
    cfgIndexDefs, \* [ImplVersion, IndexDefs]: IndexDefs keyed by name
    cfgNodeDefs,  \* wanted NodeDefs: [ImplVersion, NodeDefs], keyed by UUID
    cfgPlan,      \* PlanPIndexes: NoPlan, or [ImplVersion, PlanPIndexes, Warnings]
    cfgCas,       \* the CAS of the PlanPIndexes key
    srcUp,        \* DataSourcePartitions answers (the data source is reachable)
    adminOps,     \* how many changes the administrator has made
    \* ---- one planner per node: Manager.PlannerOnce ----
    plpc,         \* "idle" | "commit"
    plRead,       \* what the run read: [indexDefs, nodeDefs, prev, cas]
    plPlan,       \* the planPIndexes CalcPlan gave the run
    plResult,     \* what the last PlannerOnce returned: [changed, err]
    plQuiet,      \* history: the run started in the state the run before it left
    \* ---- alias resolution: bleveIndexAliasForUserIndexAlias ----
    aDefs,        \* indexDefs.IndexDefs: [Type, UUID, ParamsOk, Targets] by name
    aQuery,       \* [indexName, indexUUID]
    aStack,       \* the fillAlias calls in progress: [aliasName, left]
    aNum,         \* num
    aAdded,       \* the targets alias.Add was called for, in order
    aResult,      \* "off", "idle", "running", "ok", or the error
    aTarget,      \* the target fillAlias has reached last: [aliasName, targetName]
    \* ---- rebalancer of cmd/mcp ----
    rpc,          \* "idle" | "moves" | "write" | "done"
    rBeg,         \* r.begPlanPIndexes
    rEnd,         \* r.endPlanPIndexes
    rMoves,       \* per partition, the steps the orchestrator has yet to yield
    rCurr,        \* r.currStates
    rErrors,      \* progress.Errors
    rStep,        \* the step assignPartition is in: what it was called with and what it read
    \* ---- Manager.PlannerLoop and the callers of syncWorkReq ----
    mPlanner,     \* mgr.tagsMap == nil || mgr.tagsMap["planner"]
    wpc,          \* per caller: "idle" | "send" | "wait" | "done"
    wReq,         \* per caller, the workReq it made: [op, msg]
    wResCh,       \* per caller, resCh of its workReq: [err, closes]
    wRet,         \* per caller, what syncWorkReq returned: "none", "nil" or the error
    lpc,          \* the loop: "recv" | "once" | "commit" ("off" when it is not run)
    lCur,         \* the caller whose request the loop is handling, or "none"
    lLog,         \* history: the requests the loop received, in order: [by, op, msg]
    lClosed,      \* history: the callers whose resCh the loop closed, in order
    jKicks,       \* history: the requests JanitorKick was called for, in order
    ecQueue,      \* the events the config store has for ec, not yet received: their keys
    ecSeen,       \* history: how many events the subscriber received from ec
    \* ---- ExponentialBackoffLoop ----
    bpc,          \* "call": f() is called next | "returned" ("off" when it is not run)
    bArgs,        \* the arguments: [startSleepMS, backoffFactor, maxSleepMS]
    nextSleepMS,  \* the local nextSleepMS
    bLog,         \* history: per call of f, [progress, slept] (slept = NoSleep: none)
    \* ---- MsgRing ----
    ring,         \* the MsgRing: [Next, Msgs], or NoRing
    ringErr,      \* the error NewMsgRing returned
    ringLog,      \* history: the payloads passed to Write, in the order recorded
    ringOut,      \* what the last call of Messages returned
    \* ---- gocbcoreAgentMap and its callers ----
    entries,      \* am.entries: key -> agent (NoAgent: no entry)
    amLock,       \* who holds am.m: "none" or the caller in closeAgent
    amMade,       \* history: per key, the agents newAgent made, in order
    amClosing,    \* agents whose goroutine of Close was started and has not run
    amClosed,     \* agents whose Close has begun
    cbpc,         \* per caller: "idle" | "use" | "close"
    cbAgent,      \* per caller: the agent fetchAgent returned to it
    cbLog,        \* history: [caller, agent, op, closed] per fetch and use of an agent
    \* ---- VLiteGatherer: Count and Query ----
    vgOp,         \* "Count" | "Query" ("off" when none is run)
    vgpc,         \* the caller: "wait" (Count) | "open" | "merge" (Query) | "returned"
    vgIdx,        \* Query: the worker whose cursor is opened next
    vgCur,        \* Query: the worker whose resultCh the caller receives from in Next(), or 0
    vgHeap,       \* Query: scanCursors, the workers whose cursor has an item
    vgW,          \* per worker: [pc, left, sent, buf, closed]
    vgErrCh,      \* Query: errCh
    vgTotal,      \* Count: [total, totalErr]
    vgErrLog,     \* history: the errors of the workers, in the order they were handed over
    vgRet         \* what the call returned: [total, err]

vliteVars == <<store, memOnly, partitions, seqMax, seqMaxBatch, seqSnapEnd,
               lastUUID, cwrQueue, seqColl, opaqueColl, drain, restarted,
               panicked, feed, pc, req, doneCh, cancelCh, seqStart, result,
               atClose, entry>>
groupVars == <<gParams, gPIndexes, gCancel, gpc, gIdx, gErr, gResult, gWorker,
               gCalls, gErrLog>>
splitVars == <<sIndexDef, sParts, sOut, sDone>>
cfgVars == <<cfgVersion, cfgIndexDefs, cfgNodeDefs, cfgPlan, cfgCas, srcUp,
             adminOps>>
planVars == <<plpc, plRead, plPlan, plResult, plQuiet>>
aliasVars == <<aDefs, aQuery, aStack, aNum, aAdded, aResult, aTarget>>
rebalVars == <<rpc, rBeg, rEnd, rMoves, rCurr, rErrors, rStep>>
loopVars == <<mPlanner, wpc, wReq, wResCh, wRet, lpc, lCur, lLog, lClosed, jKicks,
              ecQueue, ecSeen>>
clusterVars == <<cfgVars, planVars, aliasVars, rebalVars, loopVars>>
backoffVars == <<bpc, bArgs, nextSleepMS, bLog>>
ringVars == <<ring, ringErr, ringLog, ringOut>>
agentVars == <<entries, amLock, amMade, amClosing, amClosed, cbpc, cbAgent, cbLog>>
gatherVars == <<vgOp, vgpc, vgIdx, vgCur, vgHeap, vgW, vgErrCh, vgTotal, vgErrLog,
                vgRet>>
miscVars == <<backoffVars, ringVars, agentVars, gatherVars>>
vars == <<vliteVars, groupVars, splitVars, clusterVars, miscVars>>

-----------------------------------------------------------------------------
(* Bounds of the model. *)

MaxSeq == 2

Partitions == {"vb0"}
Waiters == {"w1"}
Feeds == {"f1"}
\* The partitionUUID of a request ("": none given)
ReqUUIDs == {"", "u1"}
Levels == {"", "at_plus", "at_least"}

\* Opaque values a feed stores: the failover log, oldest entry first.
Opaques == {<<"u1">>, <<"u1", "u2">>}

Seqs == 0..MaxSeq

\* Sequence numbers of mutations start at 1
MutationSeqs == 1..MaxSeq

-----------------------------------------------------------------------------
(* Results of a call. *)

NoResult == [status |-> "pending", err |-> "", start |-> 0, end |-> 0]
Success == [status |-> "nil", err |-> "", start |-> 0, end |-> 0]
Failure(e) == [status |-> "error", err |-> e, start |-> 0, end |-> 0]
Cancelled(s, e) == [status |-> "cancelled", err |-> "cancelled", start |-> s, end |-> e]

ErrUnsupportedLevel == "unsupported consistencyLevel"
ErrAlreadyClosed == "already closed"
ErrMismatched == "mismatched partition"
ErrCloseUnlocked == "closeUnlocked"

OpenCh == [buf |-> "none", closed |-> FALSE]

\* History of a call: whether it reached the handle under t.m on an open
\* engine and, if so, whether the partitionUUID it gave was empty or the
\* handle's lastUUID, whether its seq was at most the handle's seqMaxBatch,
\* and whether cancelCh closed while its request was queued and not released.
NoEntry == [locked |-> FALSE, uuidOk |-> FALSE, seqOk |-> FALSE, cancelQueued |-> FALSE]

\* The arguments of a call that builds no request (the level checks return
\* before the ConsistencyWaitReq is made): only the level is kept.
NoReq == [partition |-> "vb0", uuid |-> "", level |-> "", seq |-> 0]


-----------------------------------------------------------------------------
(* CwrQueue: a heap of requests ordered by ConsistencySeq.  A request is    *)
(* [id, seq]: the call it belongs to and its ConsistencySeq.  Index i of    *)
(* the Go slice is element i+1 of the sequence.                             *)

\* CwrQueue.Less
Less(q, i, j) == q[i + 1].seq < q[j + 1].seq

\* CwrQueue.Swap
Swap(q, i, j) == [q EXCEPT ![i + 1] = q[j + 1], ![j + 1] = q[i + 1]]

\* Go's integer division by two (truncating toward zero).
GoHalf(x) == IF x < 0 THEN -((-x) \div 2) ELSE x \div 2

\* heap.up, as container/heap runs it over CwrQueue
RECURSIVE up(_, _)
up(q, j) ==
    LET i == GoHalf(j - 1) IN
    IF i = j \/ ~Less(q, j, i) THEN q ELSE up(Swap(q, i, j), i)

\* heap.down, as container/heap runs it over CwrQueue
RECURSIVE down(_, _, _)
down(q, i, n) ==
    LET j1 == 2 * i + 1 IN
    IF j1 >= n \/ j1 < 0 THEN q
    ELSE LET j == IF j1 + 1 < n /\ Less(q, j1 + 1, j1) THEN j1 + 1 ELSE j1 IN
         IF ~Less(q, j, i) THEN q ELSE down(Swap(q, i, j), j, n)

\* heap.Push(&bdp.cwrQueue, cwr): CwrQueue.Push appends, then up
heapPush(q, w) == up(Append(q, w), Len(q))

\* heap.Pop(&t.cwrQueue): swap first and last, down, CwrQueue.Pop cuts the last
heapPopped(q) == down(Swap(q, 0, Len(q) - 1), 0, Len(q) - 1)

heapPopItem(q) == heapPopped(q)[Len(q)]

heapPopRest(q) == SubSeq(heapPopped(q), 1, Len(q) - 1)

\* The calls whose requests are in a queue
Queued(q) == {q[i].id : i \in 1..Len(q)}

-----------------------------------------------------------------------------
(* Pure steps of the engine. *)

\* parseOpaqueToUUID: the UUID of the newest failover-log entry, "" if none
parseOpaqueToUUID(v) == IF Len(v) = 0 THEN "" ELSE v[Len(v)]

\* A variant of SeqMaxAfter that takes the arriving seq whatever seqMax is
SeqMaxAfterLatest(old, seq) == seq

\* updateSeqUnlocked: if t.seqMax < seq { t.seqMax = seq }
SeqMaxAfter(old, seq) == IF old < seq THEN seq ELSE old

\* A variant of BatchEnds that commits after every mutation
BatchEndsAlways(seq, snapEnd) == TRUE

\* updateSeqUnlocked: if seq < t.seqSnapEnd { return nil }
BatchEnds(seq, snapEnd) == ~(seq < snapEnd)

\* applyBatchUnlocked: t.seqMaxBatch = t.seqMax
BatchSeq(max, batch) == max

\* A variant of Releasable that keeps a request of the very seq of the batch
ReleasableBelow(q, batch) == Len(q) > 0 /\ q[1].seq < batch

\* applyBatchUnlocked: the head of the queue is released
Releasable(q, batch) == Len(q) > 0 /\ q[1].seq <= batch

\* applyBatchUnlocked's loop: pop and close(cwr.DoneCh) while the head is
\* releasable.  Closing a closed channel panics and ends the loop.
RECURSIVE popLoop(_, _, _)
popLoop(q, batch, ch) ==
    IF Releasable(q, batch)
    THEN LET cwr == heapPopItem(q)
             rest == heapPopRest(q) IN
         IF ch[cwr.id].closed
         THEN [q |-> rest, ch |-> ch, panic |-> TRUE]
         ELSE popLoop(rest, batch, [ch EXCEPT ![cwr.id].closed = TRUE])
    ELSE [q |-> q, ch |-> ch, panic |-> FALSE]

\* ConsistencyWait: cwr.PartitionUUID != "" && cwr.PartitionUUID != uuid
Mismatched(reqUUID, uuid) == reqUUID # "" /\ reqUUID # uuid

\* A variant of MustWait that lets a request one past seqMaxBatch through
MustWaitOffByOne(reqSeq, batch) == reqSeq > batch + 1

\* ConsistencyWait: cwr.ConsistencySeq > seq
MustWait(reqSeq, batch) == reqSeq > batch

\* A variant of LevelOutcome without the check for an unsupported level
LevelOutcomeUnchecked(level) == IF level = "" THEN "nil" ELSE "wait"

\* ConsistencyWait: the two checks on consistencyLevel made before anything else
LevelOutcome(level) ==
    IF level = "" THEN "nil"
    ELSE IF level # "at_plus" THEN "unsupported"
    ELSE "wait"

\* What store.Flush() can do in applyBatchUnlocked.  A memory-only engine
\* skips it; with a file it may fail; on the nil store of a closed engine it
\* cannot succeed (an error, or a nil dereference).
FlushOutcomes ==
    IF memOnly THEN {"ok"}
    ELSE IF store = "open" THEN {"ok", "err"}
    ELSE {"err", "panic"}

\* A receive from cwr.DoneCh is ready
DoneReady(ch) == ch.buf # "none" \/ ch.closed


-----------------------------------------------------------------------------
(* The engine's operations.  Every operation that takes t.m runs as one     *)
(* step; a panic ends the process, and nothing runs after it.               *)

Running == panicked = "none"

\* VLite.closeUnlocked: empty the table, drop the store, and leave the
\* queues of the old handles to a goroutine.
closeUnlocked ==
    IF store = "closed"
    THEN UNCHANGED <<store, partitions, drain, atClose>>
    ELSE /\ store' = "closed"
         /\ partitions' = {}
         /\ drain' = partitions
         /\ atClose' = UNION {Queued(cwrQueue[p]) : p \in partitions}

\* VLitePartition.applyBatchUnlocked on handle p, whose seqMax is max
applyBatchUnlocked(p, max, flush) ==
    IF flush = "err"
    THEN UNCHANGED <<seqMaxBatch, cwrQueue, doneCh, panicked>>
    ELSE IF flush = "panic"
    THEN /\ panicked' = "nil store"
         /\ UNCHANGED <<seqMaxBatch, cwrQueue, doneCh>>
    ELSE LET batch == BatchSeq(max, seqMaxBatch[p])
             r == popLoop(cwrQueue[p], batch, doneCh) IN
         /\ seqMaxBatch' = [seqMaxBatch EXCEPT ![p] = batch]
         /\ cwrQueue' = [cwrQueue EXCEPT ![p] = r.q]
         /\ doneCh' = r.ch
         /\ panicked' = IF r.panic THEN "close of closed channel" ELSE panicked

\* VLitePartition.updateSeqUnlocked on handle p
updateSeqUnlocked(p, seq, flush) ==
    LET max == SeqMaxAfter(seqMax[p], seq) IN
    /\ seqMax' = [seqMax EXCEPT ![p] = max]
    /\ seqColl' = IF seqMax[p] < seq THEN [seqColl EXCEPT ![p] = max] ELSE seqColl
    /\ IF BatchEnds(seq, seqSnapEnd[p])
       THEN applyBatchUnlocked(p, max, flush)
       ELSE UNCHANGED <<seqMaxBatch, cwrQueue, doneCh, panicked>>

waiterVars == <<pc, req, cancelCh, seqStart, result, entry>>

\* VLite.Dest: a feed gets the handle of a partition (DestForwarder does so
\* for every call it forwards)
Dest(f, p) ==
    /\ Running /\ feed[f] = "idle"
    /\ store = "open"
    /\ partitions' = partitions \cup {p}
    /\ feed' = [feed EXCEPT ![f] = p]
    /\ UNCHANGED <<store, memOnly, seqMax, seqMaxBatch, seqSnapEnd, lastUUID,
                   cwrQueue, seqColl, opaqueColl, drain, restarted, panicked,
                   doneCh, atClose, waiterVars>>

\* VLitePartition.DataUpdate, reaching updateSeqUnlocked
DataUpdate(f, seq) ==
    /\ Running /\ feed[f] # "idle"
    /\ \E flush \in FlushOutcomes : updateSeqUnlocked(feed[f], seq, flush)
    /\ feed' = [feed EXCEPT ![f] = "idle"]
    /\ UNCHANGED <<store, memOnly, partitions, seqSnapEnd, lastUUID, opaqueColl,
                   drain, restarted, atClose, waiterVars>>

\* VLitePartition.DataUpdate returning before updateSeqUnlocked: no value at
\* the json path, or a collection that refuses the write
DataUpdateSkipped(f) ==
    /\ Running /\ feed[f] # "idle"
    /\ feed' = [feed EXCEPT ![f] = "idle"]
    /\ UNCHANGED <<store, memOnly, partitions, seqMax, seqMaxBatch, seqSnapEnd,
                   lastUUID, cwrQueue, seqColl, opaqueColl, drain, restarted,
                   panicked, doneCh, atClose, waiterVars>>

\* VLitePartition.DataDelete
DataDelete(f, seq) ==
    /\ Running /\ feed[f] # "idle"
    /\ \E flush \in FlushOutcomes : updateSeqUnlocked(feed[f], seq, flush)
    /\ feed' = [feed EXCEPT ![f] = "idle"]
    /\ UNCHANGED <<store, memOnly, partitions, seqSnapEnd, lastUUID, opaqueColl,
                   drain, restarted, atClose, waiterVars>>

\* VLitePartition.SnapshotStart
SnapshotStart(f, snapEnd) ==
    /\ Running /\ feed[f] # "idle"
    /\ \E flush \in FlushOutcomes :
          /\ applyBatchUnlocked(feed[f], seqMax[feed[f]], flush)
          /\ seqSnapEnd' = IF flush = "ok"
                           THEN [seqSnapEnd EXCEPT ![feed[f]] = snapEnd]
                           ELSE seqSnapEnd
    /\ feed' = [feed EXCEPT ![f] = "idle"]
    /\ UNCHANGED <<store, memOnly, partitions, seqMax, lastUUID, seqColl,
                   opaqueColl, drain, restarted, atClose, waiterVars>>

\* VLitePartition.OpaqueGet
OpaqueGet(f) ==
    LET p == feed[f] IN
    /\ Running /\ p # "idle"
    /\ lastUUID' = [lastUUID EXCEPT ![p] = parseOpaqueToUUID(opaqueColl[p])]
    /\ seqMax' = IF seqMax[p] <= 0 /\ seqColl[p] > 0
                 THEN [seqMax EXCEPT ![p] = seqColl[p]]
                 ELSE seqMax
    /\ feed' = [feed EXCEPT ![f] = "idle"]
    /\ UNCHANGED <<store, memOnly, partitions, seqMaxBatch, seqSnapEnd, cwrQueue,
                   seqColl, opaqueColl, drain, restarted, panicked, doneCh,
                   atClose, waiterVars>>

\* VLitePartition.OpaqueSet
OpaqueSet(f, value) ==
    LET p == feed[f] IN
    /\ Running /\ p # "idle"
    /\ lastUUID' = [lastUUID EXCEPT ![p] = parseOpaqueToUUID(value)]
    /\ opaqueColl' = [opaqueColl EXCEPT ![p] = value]
    /\ feed' = [feed EXCEPT ![f] = "idle"]
    /\ UNCHANGED <<store, memOnly, partitions, seqMax, seqMaxBatch, seqSnapEnd,
                   cwrQueue, seqColl, drain, restarted, panicked, doneCh,
                   atClose, waiterVars>>

\* VLite.Close (also VLitePartition.Close)
Close ==
    /\ Running /\ store = "open"
    /\ closeUnlocked
    /\ UNCHANGED <<memOnly, seqMax, seqMaxBatch, seqSnapEnd, lastUUID, cwrQueue,
                   seqColl, opaqueColl, restarted, panicked, feed, doneCh,
                   waiterVars>>

\* VLite.Rollback (through VLitePartition.Rollback): close, remove the files
\* and ask the manager to restart the engine
Rollback(f) ==
    /\ Running /\ feed[f] # "idle"
    /\ closeUnlocked
    /\ restarted' = TRUE
    /\ feed' = [feed EXCEPT ![f] = "idle"]
    /\ UNCHANGED <<memOnly, seqMax, seqMaxBatch, seqSnapEnd, lastUUID, cwrQueue,
                   seqColl, opaqueColl, panicked, doneCh, waiterVars>>

\* The send and close of closeUnlocked's goroutine over one queue
RECURSIVE drainLoop(_, _, _)
drainLoop(q, i, ch) ==
    IF i > Len(q) THEN [ch |-> ch, panic |-> FALSE]
    ELSE IF ch[q[i].id].closed THEN [ch |-> ch, panic |-> TRUE]
    ELSE drainLoop(q, i + 1,
                   [ch EXCEPT ![q[i].id] = [buf |-> ErrCloseUnlocked, closed |-> TRUE]])

\* The goroutine of closeUnlocked visits the queue of one old handle, under
\* t.m: every request still in it gets the error and its channel is closed.
\* The queue itself is left as it is.
DrainQueue(p) ==
    /\ Running /\ p \in drain
    /\ \A i \in 1..Len(cwrQueue[p]) : doneCh[cwrQueue[p][i].id].buf = "none"
    /\ LET r == drainLoop(cwrQueue[p], 1, doneCh) IN
         /\ doneCh' = r.ch
         /\ panicked' = IF r.panic THEN "send on closed channel" ELSE panicked
    /\ drain' = drain \ {p}
    /\ UNCHANGED <<store, memOnly, partitions, seqMax, seqMaxBatch, seqSnapEnd,
                   lastUUID, cwrQueue, seqColl, opaqueColl, restarted, feed,
                   atClose, waiterVars>>


-----------------------------------------------------------------------------
(* One ConsistencyWait call per waiter: VLite.ConsistencyWait up to its      *)
(* unlock, then ConsistencyWaitDone.                                         *)

engineVars == <<store, memOnly, partitions, seqMax, seqMaxBatch, seqSnapEnd,
                lastUUID, cwrQueue, seqColl, opaqueColl, drain, restarted,
                panicked, feed, atClose>>

\* A variant of Admission that compares the seq before the partitionUUID
AdmissionSeqFirst(reqUUID, reqSeq, uuid, batch) ==
    IF MustWait(reqSeq, batch) THEN "push"
    ELSE IF Mismatched(reqUUID, uuid) THEN "mismatch"
    ELSE "close"

\* A variant of Admission that queues every request with a good partitionUUID
AdmissionAlwaysQueued(reqUUID, reqSeq, uuid, batch) ==
    IF Mismatched(reqUUID, uuid) THEN "mismatch" ELSE "push"

\* What VLite.ConsistencyWait does with the request under t.m
Admission(reqUUID, reqSeq, uuid, batch) ==
    IF Mismatched(reqUUID, uuid) THEN "mismatch"
    ELSE IF MustWait(reqSeq, batch) THEN "push"
    ELSE "close"

\* VLite.ConsistencyWait, from its entry to t.m.Unlock()
ConsistencyWait(w, p, uuid, level, seq) ==
    /\ Running /\ pc[w] = "idle"
    /\ req' = [req EXCEPT ![w] =
                 IF LevelOutcome(level) # "wait"
                 THEN [NoReq EXCEPT !.level = level]
                 ELSE [partition |-> p, uuid |-> uuid, level |-> level, seq |-> seq]]
    /\ UNCHANGED <<store, memOnly, seqMax, seqMaxBatch, seqSnapEnd, lastUUID,
                   seqColl, opaqueColl, drain, restarted, panicked, feed,
                   atClose, cancelCh, seqStart>>
    /\ entry' = [entry EXCEPT ![w] =
                   IF level = "at_plus" /\ store = "open"
                   THEN [locked |-> TRUE,
                         uuidOk |-> (uuid = "" \/ uuid = lastUUID[p]),
                         seqOk |-> (seq <= seqMaxBatch[p]),
                         cancelQueued |-> FALSE]
                   ELSE NoEntry]
    /\ IF LevelOutcome(level) # "wait"
       THEN /\ pc' = [pc EXCEPT ![w] = "done"]
            /\ result' = [result EXCEPT ![w] =
                            IF LevelOutcome(level) = "nil" THEN Success
                            ELSE Failure(ErrUnsupportedLevel)]
            /\ UNCHANGED <<partitions, cwrQueue, doneCh>>
       ELSE IF store = "closed"
       THEN /\ pc' = [pc EXCEPT ![w] = "done"]
            /\ result' = [result EXCEPT ![w] = Failure(ErrAlreadyClosed)]
            /\ UNCHANGED <<partitions, cwrQueue, doneCh>>
       ELSE LET a == Admission(uuid, seq, lastUUID[p], seqMaxBatch[p]) IN
            /\ partitions' = partitions \cup {p}
            /\ pc' = [pc EXCEPT ![w] = "start"]
            /\ cwrQueue' = IF a = "push"
                           THEN [cwrQueue EXCEPT ![p] =
                                   heapPush(cwrQueue[p], [id |-> w, seq |-> seq])]
                           ELSE cwrQueue
            /\ doneCh' = [doneCh EXCEPT ![w] =
                            IF a = "mismatch"
                            THEN [buf |-> ErrMismatched, closed |-> TRUE]
                            ELSE IF a = "close"
                            THEN [buf |-> "none", closed |-> TRUE]
                            ELSE OpenCh]
            /\ UNCHANGED result

\* ConsistencyWaitDone: seqStart := currSeq()
WaitStart(w) ==
    /\ Running /\ pc[w] = "start"
    /\ seqStart' = [seqStart EXCEPT ![w] = seqMaxBatch[req[w].partition]]
    /\ pc' = [pc EXCEPT ![w] = "select"]
    /\ UNCHANGED <<engineVars, req, doneCh, cancelCh, result, entry>>

\* A variant of CancelResult with the pair the other way round
CancelResultSwapped(start, curr) == Cancelled(curr, start)

\* ConsistencyWaitDone's ErrorConsistencyWait: StartEndSeqs[partition] is
\* []uint64{seqStart, currSeq()}
CancelResult(start, curr) == Cancelled(start, curr)

\* What a receive from a channel in state ch yields
Received(ch) == IF ch.buf # "none" THEN Failure(ch.buf) ELSE Success

\* ConsistencyWaitDone: case err := <-doneCh
WaitDone(w) ==
    /\ Running /\ pc[w] = "select"
    /\ DoneReady(doneCh[w])
    /\ result' = [result EXCEPT ![w] = Received(doneCh[w])]
    /\ doneCh' = [doneCh EXCEPT ![w].buf = "none"]
    /\ pc' = [pc EXCEPT ![w] = "done"]
    /\ seqStart' = [seqStart EXCEPT ![w] = 0]
    /\ cancelCh' = [cancelCh EXCEPT ![w] = FALSE]
    /\ UNCHANGED <<engineVars, req, entry>>

\* ConsistencyWaitDone: case <-cancelCh
WaitCancel(w) ==
    /\ Running /\ pc[w] = "select"
    /\ cancelCh[w]
    /\ pc' = [pc EXCEPT ![w] = "cancelled"]
    /\ UNCHANGED <<engineVars, req, doneCh, cancelCh, seqStart, result, entry>>

\* ConsistencyWaitDone: the second currSeq(), and the ErrorConsistencyWait
WaitCancelled(w) ==
    /\ Running /\ pc[w] = "cancelled"
    /\ result' = [result EXCEPT ![w] =
                    CancelResult(seqStart[w], seqMaxBatch[req[w].partition])]
    /\ pc' = [pc EXCEPT ![w] = "done"]
    /\ seqStart' = [seqStart EXCEPT ![w] = 0]
    /\ cancelCh' = [cancelCh EXCEPT ![w] = FALSE]
    /\ UNCHANGED <<engineVars, req, doneCh, entry>>

\* TimeoutCancelChan's goroutine (or the caller) closes cancelCh.  Only the
\* select of ConsistencyWaitDone reads the channel, so a close at any earlier
\* moment is the same as a close when the call has reached the select;
\* cancelCh[w] and seqStart[w] are locals of the call and end with it.
CancelClose(w) ==
    /\ Running /\ ~cancelCh[w] /\ pc[w] = "select"
    /\ cancelCh' = [cancelCh EXCEPT ![w] = TRUE]
    /\ entry' = [entry EXCEPT ![w].cancelQueued =
                   /\ w \in Queued(cwrQueue[req[w].partition])
                   /\ ~DoneReady(doneCh[w])]
    /\ UNCHANGED <<engineVars, pc, req, doneCh, seqStart, result>>

-----------------------------------------------------------------------------
(* The engine's specification. *)

\* What an engine finds in its collections when it starts: nothing (New), or
\* what an earlier run of a file-backed engine left (Open).
Persisted ==
    {[seq |-> [p \in Partitions |-> 0], opaque |-> [p \in Partitions |-> <<>>]]}
    \cup {[seq |-> [p \in Partitions |-> s], opaque |-> [p \in Partitions |-> <<"u1">>]]
            : s \in 1..MaxSeq}

GroupIdle ==
    /\ gParams = <<>> /\ gPIndexes = <<>> /\ gCancel = FALSE
    /\ gpc = "off" /\ gIdx = 0 /\ gErr = <<>> /\ gResult = <<>>
    /\ gWorker = <<>> /\ gCalls = {} /\ gErrLog = <<>>

SplitIdle ==
    /\ sIndexDef = <<>> /\ sParts = <<>> /\ sOut = <<>> /\ sDone = "no"

CfgIdle ==
    /\ cfgVersion = <<>> /\ cfgIndexDefs = <<>> /\ cfgNodeDefs = <<>>
    /\ cfgPlan = <<>> /\ cfgCas = 0 /\ srcUp = FALSE /\ adminOps = 0

PlanIdle ==
    /\ plpc = <<>> /\ plRead = <<>> /\ plPlan = <<>> /\ plResult = <<>>
    /\ plQuiet = <<>>

AliasIdle ==
    /\ aDefs = <<>> /\ aQuery = <<>> /\ aStack = <<>> /\ aNum = 0
    /\ aAdded = <<>> /\ aResult = "off" /\ aTarget = <<>>

RebalIdle ==
    /\ rpc = "off" /\ rBeg = <<>> /\ rEnd = <<>> /\ rMoves = <<>>
    /\ rCurr = <<>> /\ rErrors = <<>> /\ rStep = <<>>

LoopIdle ==
    /\ mPlanner = FALSE /\ wpc = <<>> /\ wReq = <<>> /\ wResCh = <<>> /\ wRet = <<>>
    /\ lpc = "off" /\ lCur = "none" /\ lLog = <<>> /\ lClosed = <<>> /\ jKicks = <<>>
    /\ ecQueue = <<>> /\ ecSeen = 0

BackoffIdle ==
    /\ bpc = "off" /\ bArgs = <<>> /\ nextSleepMS = 0 /\ bLog = <<>>

RingIdle ==
    /\ ring = <<>> /\ ringErr = "" /\ ringLog = <<>> /\ ringOut = <<>>

AgentsIdle ==
    /\ entries = <<>> /\ amLock = "none" /\ amMade = <<>> /\ amClosing = {}
    /\ amClosed = {} /\ cbpc = <<>> /\ cbAgent = <<>> /\ cbLog = <<>>

GatherIdle ==
    /\ vgOp = "off" /\ vgpc = "off" /\ vgIdx = 0 /\ vgCur = 0 /\ vgHeap = {}
    /\ vgW = <<>> /\ vgErrCh = <<>> /\ vgTotal = <<>> /\ vgErrLog = <<>>
    /\ vgRet = <<>>

MiscIdle == BackoffIdle /\ RingIdle /\ AgentsIdle /\ GatherIdle

ClusterIdle == CfgIdle /\ PlanIdle /\ AliasIdle /\ RebalIdle /\ LoopIdle

VLiteIdle ==
    /\ store = "closed" /\ memOnly = TRUE /\ partitions = {}
    /\ seqMax = <<>> /\ seqMaxBatch = <<>> /\ seqSnapEnd = <<>>
    /\ lastUUID = <<>> /\ cwrQueue = <<>> /\ seqColl = <<>> /\ opaqueColl = <<>>
    /\ drain = {} /\ restarted = FALSE /\ panicked = "none" /\ feed = <<>>
    /\ pc = <<>> /\ req = <<>> /\ doneCh = <<>> /\ cancelCh = <<>>
    /\ seqStart = <<>> /\ result = <<>> /\ atClose = {} /\ entry = <<>>

\* NewVLite, with the waiters and the feeds not yet calling
Init ==
    /\ store = "open"
    /\ memOnly \in BOOLEAN
    /\ partitions = {}
    /\ seqMax = [p \in Partitions |-> 0]
    /\ seqMaxBatch = [p \in Partitions |-> 0]
    /\ seqSnapEnd = [p \in Partitions |-> 0]
    /\ lastUUID = [p \in Partitions |-> ""]
    /\ cwrQueue = [p \in Partitions |-> <<>>]
    /\ \E ps \in Persisted :
          /\ (memOnly => ps.seq = [p \in Partitions |-> 0])
          /\ seqColl = ps.seq
          /\ opaqueColl = ps.opaque
    /\ drain = {}
    /\ restarted = FALSE
    /\ panicked = "none"
    /\ feed = [f \in Feeds |-> "idle"]
    /\ pc = [w \in Waiters |-> "idle"]
    /\ req = [w \in Waiters |-> NoReq]
    /\ doneCh = [w \in Waiters |-> OpenCh]
    /\ cancelCh = [w \in Waiters |-> FALSE]
    /\ seqStart = [w \in Waiters |-> 0]
    /\ result = [w \in Waiters |-> NoResult]
    /\ atClose = {}
    /\ entry = [w \in Waiters |-> NoEntry]
    /\ MiscIdle
    /\ GroupIdle
    /\ SplitIdle
    /\ ClusterIdle

Ingest ==
    \/ \E f \in Feeds, p \in Partitions : Dest(f, p)
    \/ \E f \in Feeds, seq \in MutationSeqs : DataUpdate(f, seq)
    \/ \E f \in Feeds : DataUpdateSkipped(f)
    \/ \E f \in Feeds, seq \in MutationSeqs : DataDelete(f, seq)
    \/ \E f \in Feeds, snapEnd \in Seqs : SnapshotStart(f, snapEnd)
    \/ \E f \in Feeds : OpaqueGet(f)
    \/ \E f \in Feeds, value \in Opaques : OpaqueSet(f, value)

Shutdown ==
    \/ Close
    \/ \E f \in Feeds : Rollback(f)
    \/ \E p \in Partitions : DrainQueue(p)

Waiting ==
    \/ \E w \in Waiters, p \in Partitions, uuid \in ReqUUIDs, level \in Levels, seq \in Seqs :
          ConsistencyWait(w, p, uuid, level, seq)
    \/ \E w \in Waiters : WaitStart(w)
    \/ \E w \in Waiters : WaitDone(w)
    \/ \E w \in Waiters : WaitCancel(w)
    \/ \E w \in Waiters : WaitCancelled(w)
    \/ \E w \in Waiters : CancelClose(w)

Next == (Ingest \/ Shutdown \/ Waiting) /\ UNCHANGED <<groupVars, splitVars, clusterVars, miscVars>>

Spec == Init /\ [][Next]_vars

\* A call that can go on in ConsistencyWaitDone does: its goroutine is
\* scheduled and gets t.m.  Nothing is assumed of feeds, Close or timers.
FairSpec ==
    /\ Spec
    /\ \A w \in Waiters :
          /\ WF_vars(WaitStart(w) /\ UNCHANGED <<groupVars, splitVars, clusterVars, miscVars>>)
          /\ WF_vars((WaitDone(w) \/ WaitCancel(w))
                        /\ UNCHANGED <<groupVars, splitVars, clusterVars, miscVars>>)
          /\ WF_vars(WaitCancelled(w) /\ UNCHANGED <<groupVars, splitVars, clusterVars, miscVars>>)


-----------------------------------------------------------------------------
(* Properties of the engine and of ConsistencyWait. *)

AtPlus(w) == req[w].level = "at_plus"

InQueue(w) == w \in Queued(cwrQueue[req[w].partition])

Returned(w) == pc[w] = "done"

\* C1: a ConsistencyWait at level "at_plus" that returns nil does so only
\* when seqMaxBatch of its partition is at least the requested seq; the same
\* holds from the moment its done channel is closed without an error (found
\* satisfied on entry, or popped by a batch commit).
C1_SuccessMeansSeqReached ==
    \A w \in Waiters :
        /\ (Returned(w) /\ AtPlus(w) /\ result[w] = Success)
              => seqMaxBatch[req[w].partition] >= req[w].seq
        /\ (AtPlus(w) /\ entry[w].locked
              /\ doneCh[w] = [buf |-> "none", closed |-> TRUE]
              /\ result[w].status # "error")
              => seqMaxBatch[req[w].partition] >= req[w].seq

\* C1 witness: a call that was not satisfied on entry was queued, released by
\* a batch commit, and has returned nil.
C1_Witness ==
    \E w \in Waiters :
        /\ Returned(w) /\ AtPlus(w) /\ result[w] = Success
        /\ entry[w].locked /\ ~entry[w].seqOk
        /\ req[w].seq = MaxSeq

\* C2 as claimed: seqMaxBatch of a partition handle never decreases, and a
\* handle leaves the engine's table (its seqMaxBatch discarded with it) only
\* in a Rollback.
C2_OnlyRollbackDiscards ==
    [][\A p \in Partitions :
          /\ seqMaxBatch'[p] >= seqMaxBatch[p]
          /\ (p \in partitions /\ p \notin partitions') => restarted']_vars

\* C2 amended: seqMaxBatch of a partition handle never decreases, whatever
\* the step (mutations with seqs in any order, snapshot markers, opaque get
\* and set, waits, Close, Rollback); a handle leaves the engine's table only
\* when closeUnlocked runs, in Close as well as in Rollback, and that leaves
\* the field of the discarded handle as it was.
C2_SeqMaxBatchMonotonic ==
    [][\A p \in Partitions :
          /\ seqMaxBatch'[p] >= seqMaxBatch[p]
          /\ (p \in partitions /\ p \notin partitions')
                => (store = "open" /\ store' = "closed"
                    /\ seqMaxBatch'[p] = seqMaxBatch[p])]_vars

\* C2 witness: a handle whose seqMaxBatch has reached the top, through
\* mutations inside and after a snapshot, has been discarded with the field
\* still at the top.
C2_Witness ==
    \E p \in Partitions :
        /\ seqMaxBatch[p] = MaxSeq /\ seqMax[p] = MaxSeq
        /\ seqSnapEnd[p] = 1 /\ store = "closed" /\ p \notin partitions

\* C3 as claimed: a call whose partitionUUID is given and differs from
\* lastUUID returns the mismatched-partition error.
C3_MismatchReturnsMismatchError ==
    \A w \in Waiters :
        (Returned(w) /\ AtPlus(w) /\ entry[w].locked /\ ~entry[w].uuidOk)
            => result[w] = Failure(ErrMismatched)

\* C3 amended: a call whose partitionUUID is given and differs from lastUUID
\* is never queued, its done channel is ready as soon as t.m is released, and
\* it returns the mismatched-partition error or, if cancelCh is closed when
\* its select runs, the cancelled error: never nil.
C3_MismatchFailsAtOnce ==
    \A w \in Waiters :
        (AtPlus(w) /\ entry[w].locked /\ ~entry[w].uuidOk)
            => /\ ~InQueue(w)
               /\ pc[w] \in {"start", "select"} =>
                     doneCh[w] = [buf |-> ErrMismatched, closed |-> TRUE]
               /\ Returned(w) =>
                     \/ result[w] = Failure(ErrMismatched)
                     \/ result[w].status = "cancelled"

\* C3 witness: a mismatched call, with a seq above seqMaxBatch, has returned
\* the mismatched-partition error.
C3_Witness ==
    \E w \in Waiters :
        /\ Returned(w) /\ AtPlus(w) /\ entry[w].locked
        /\ ~entry[w].uuidOk /\ ~entry[w].seqOk
        /\ result[w] = Failure(ErrMismatched)

\* C4 as claimed: a call with a matching or empty partitionUUID and a seq at
\* most seqMaxBatch returns nil.
C4_SatisfiedReturnsNil ==
    \A w \in Waiters :
        (Returned(w) /\ AtPlus(w) /\ entry[w].locked
            /\ entry[w].uuidOk /\ entry[w].seqOk)
            => result[w] = Success

\* C4 amended: a call with a matching or empty partitionUUID and a seq at
\* most seqMaxBatch is never queued, its done channel is closed as soon as
\* t.m is released, and it returns nil or, if cancelCh is closed when its
\* select runs, the cancelled error: no other error.
C4_SatisfiedReleasedAtOnce ==
    \A w \in Waiters :
        (AtPlus(w) /\ entry[w].locked /\ entry[w].uuidOk /\ entry[w].seqOk)
            => /\ ~InQueue(w)
               /\ doneCh[w] = [buf |-> "none", closed |-> TRUE]
               /\ Returned(w) =>
                     \/ result[w] = Success
                     \/ result[w].status = "cancelled"

\* C4 witness: a call with seq = seqMaxBatch > 0 and the handle's own
\* partitionUUID has returned nil.
C4_Witness ==
    \E w \in Waiters :
        /\ Returned(w) /\ AtPlus(w) /\ entry[w].locked
        /\ entry[w].uuidOk /\ entry[w].seqOk
        /\ req[w].uuid # "" /\ req[w].seq = MaxSeq
        /\ result[w] = Success

\* C5: a call with level "" returns nil and a call with a level other than
\* "" and "at_plus" returns the unsupported-level error, both in the step
\* that makes the call, which leaves the partition table, the queues, seqMax
\* and seqMaxBatch as they were.
C5_OtherLevelsReturnAtOnce ==
    [][\A w \in Waiters :
          (pc[w] = "idle" /\ pc'[w] # "idle" /\ req'[w].level # "at_plus")
             => /\ pc'[w] = "done"
                /\ result'[w] = IF req'[w].level = "" THEN Success
                                ELSE Failure(ErrUnsupportedLevel)
                /\ UNCHANGED <<partitions, cwrQueue, seqMax, seqMaxBatch, doneCh>>]_vars

\* C5 witness: a call with an unsupported level has returned its error on an
\* open engine whose handle has a batch in progress.
C5_Witness ==
    \E w \in Waiters :
        /\ Returned(w) /\ req[w].level = "at_least"
        /\ result[w] = Failure(ErrUnsupportedLevel)
        /\ store = "open" /\ seqMax["vb0"] > seqMaxBatch["vb0"]


\* C6 as claimed: a call whose cancelCh closed while its request was queued
\* and its done channel was not ready returns the cancelled error.
C6_CancelWhileQueuedReturnsCancelled ==
    \A w \in Waiters :
        (Returned(w) /\ entry[w].cancelQueued) => result[w].status = "cancelled"

\* C6 amended: the select of ConsistencyWaitDone takes the cancel case when
\* cancelCh is closed and the done channel is not ready; a call that takes
\* the cancel case returns the cancelled error with the pair [seqMaxBatch
\* read at wait start, seqMaxBatch read after the cancel], start <= end; a
\* call that has returned with its request still queued and its done channel
\* open has returned cancelled; and once cancelCh is closed at the select the
\* call returns with the steps of the call alone, no ingest step being
\* needed (unless the process has panicked).  When the done channel becomes
\* ready between the cancel and the select, either case may be taken.
C6_CancelReturnsStartEndPair ==
    /\ [][\A w \in Waiters :
            LET p == req[w].partition IN
            /\ (pc[w] = "start" /\ pc'[w] # "start")
                  => (pc'[w] = "select" /\ seqStart'[w] = seqMaxBatch[p])
            /\ (pc[w] = "select" /\ cancelCh[w] /\ ~DoneReady(doneCh[w])
                  /\ pc'[w] # "select")
                  => pc'[w] = "cancelled"
            /\ (pc[w] = "cancelled" /\ pc'[w] # "cancelled")
                  => /\ pc'[w] = "done"
                     /\ result'[w] = [status |-> "cancelled", err |-> "cancelled",
                                      start |-> seqStart[w],
                                      end |-> seqMaxBatch[p]]
                     /\ result'[w].start <= result'[w].end]_vars
    /\ [](\A w \in Waiters :
            (Returned(w) /\ AtPlus(w) /\ InQueue(w) /\ ~doneCh[w].closed)
               => result[w].status = "cancelled")
    /\ \A w \in Waiters :
          (pc[w] = "select" /\ cancelCh[w]) ~> (Returned(w) \/ ~Running)

\* C6 witness: a queued call has returned cancelled with a pair whose
\* start is below its end, its request still in the queue.
C6_Witness ==
    \E w \in Waiters :
        /\ Returned(w) /\ entry[w].cancelQueued /\ InQueue(w)
        /\ result[w].status = "cancelled"
        /\ result[w].start < result[w].end

\* C7 as claimed: a request that was queued when the engine was closed never
\* returns success.
C7_QueuedAtCloseNeverSucceeds ==
    \A w \in atClose : result[w].status # "nil"


-----------------------------------------------------------------------------
(* ConsistencyWaitGroup and ConsistencyWaitPartitions.  Strings that the    *)
(* code splits are sequences of one-character strings.                      *)

MaxPIndexes == 2
MaxGroupSeq == 1

\* Keys of a consistency vector: "a", "a/u", "b"
GroupKeys == {<<"a">>, <<"a", "/", "u">>, <<"b">>}

\* The sourcePartitionsMap a local PIndex may have
GroupPartitionSets == {{<<"a">>}, {<<"b">>}}

Vectors == UNION {[S -> 0..MaxGroupSeq] : S \in SUBSET GroupKeys}

PIndexLists == UNION {[1..n -> GroupPartitionSets] : n \in 0..MaxPIndexes}

\* consistencyParams: nil; Level ""; Vectors nil; no vector for indexName;
\* a vector for indexName
GroupParams ==
    {[present |-> FALSE, level |-> "", vectors |-> "nil", vector |-> <<>>],
     [present |-> TRUE, level |-> "at_plus", vectors |-> "nil", vector |-> <<>>],
     [present |-> TRUE, level |-> "at_plus", vectors |-> "other", vector |-> <<>>]}
    \cup {[present |-> TRUE, level |-> l, vectors |-> "mine", vector |-> v]
            : l \in {"", "at_plus"}, v \in Vectors}

GNone == [kind |-> "none", pindex |-> 0, key |-> <<>>]
GNil == [kind |-> "nil", pindex |-> 0, key |-> <<>>]
GError(kind, i, k) == [kind |-> kind, pindex |-> i, key |-> k]

IdleWorker == [pc |-> "none", left |-> {}, key |-> <<>>, err |-> GNone]

\* strings.Index(s, sep) for a one-character sep, counted from 1; 0 if absent
IndexOf(s, sep) ==
    IF \E i \in 1..Len(s) : s[i] = sep
    THEN CHOOSE i \in 1..Len(s) : s[i] = sep /\ \A j \in 1..(i - 1) : s[j] # sep
    ELSE 0

\* strings.Split(s, sep) for a one-character sep
RECURSIVE Split(_, _)
Split(s, sep) ==
    IF IndexOf(s, sep) = 0 THEN <<s>>
    ELSE <<SubSeq(s, 1, IndexOf(s, sep) - 1)>>
            \o Split(SubSeq(s, IndexOf(s, sep) + 1, Len(s)), sep)

\* ConsistencyWaitPartitions: partition := arr[0]
KeyPartition(k) == Split(k, "/")[1]

\* ConsistencyWaitPartitions: partitionUUID is arr[1] when there is one
KeyUUID(k) == IF Len(Split(k, "/")) > 1 THEN Split(k, "/")[2] ELSE <<>>

\* ConsistencyWaitPartitions: the entries of the vector it calls
\* ConsistencyWait for
NeedsWait(parts, vector, k) == vector[k] > 0 /\ KeyPartition(k) \in parts

\* ConsistencyWaitGroup: the condition under which a goroutine is started
Spawns(params) ==
    /\ params.present /\ params.level # ""
    /\ params.vectors # "nil" /\ params.vectors = "mine"

\* A goroutine that was started and has not reached wg.Done()
Busy(wk) == wk.pc \in {"iter", "call", "store"}

\* ConsistencyWaitGroup: one turn of its loop over localPIndexes, with what
\* addLocalPIndex returns
GroupAdd(ok) ==
    /\ gpc = "loop" /\ gIdx < Len(gPIndexes)
    /\ IF ~ok
       THEN /\ gResult' = GError("addLocalPIndex", gIdx + 1, <<>>)
            /\ gpc' = "done"
            /\ UNCHANGED <<gIdx, gWorker>>
       ELSE /\ gIdx' = gIdx + 1
            /\ gWorker' = IF Spawns(gParams)
                          THEN [gWorker EXCEPT ![gIdx + 1] =
                                  [IdleWorker EXCEPT !.pc = "iter",
                                                     !.left = DOMAIN gParams.vector]]
                          ELSE gWorker
            /\ UNCHANGED <<gResult, gpc>>
    /\ UNCHANGED <<gParams, gPIndexes, gCancel, gErr, gCalls, gErrLog>>

\* ConsistencyWaitPartitions: the range over the vector takes its next key,
\* in the order the map gives, and calls ConsistencyWait if the entry asks
WorkerRange(i, k) ==
    /\ gWorker[i].pc = "iter" /\ k \in gWorker[i].left
    /\ gWorker' = [gWorker EXCEPT ![i] =
                     IF NeedsWait(gPIndexes[i], gParams.vector, k)
                     THEN [@ EXCEPT !.left = @ \ {k}, !.pc = "call", !.key = k]
                     ELSE [@ EXCEPT !.left = @ \ {k}]]
    /\ UNCHANGED <<gParams, gPIndexes, gCancel, gpc, gIdx, gErr, gResult,
                   gCalls, gErrLog>>

\* ConsistencyWaitPartitions: the range is over; return nil, and wg.Done()
WorkerRangeEnd(i) ==
    /\ gWorker[i].pc = "iter" /\ gWorker[i].left = {}
    /\ gWorker' = [gWorker EXCEPT ![i].pc = "exit"]
    /\ UNCHANGED <<gParams, gPIndexes, gCancel, gpc, gIdx, gErr, gResult,
                   gCalls, gErrLog>>

\* t.ConsistencyWait returns to ConsistencyWaitPartitions, with nil or with
\* an error, which ends the range
WorkerCallReturns(i, ok) ==
    /\ gWorker[i].pc = "call"
    /\ IF ok
       THEN /\ gWorker' = [gWorker EXCEPT ![i].pc = "iter", ![i].key = <<>>]
            /\ gCalls' = gCalls \cup {<<i, gWorker[i].key>>}
       ELSE /\ gWorker' = [gWorker EXCEPT ![i].pc = "store", ![i].key = <<>>,
                             ![i].err = GError("wait", i, gWorker[i].key)]
            /\ UNCHANGED gCalls
    /\ UNCHANGED <<gParams, gPIndexes, gCancel, gpc, gIdx, gErr, gResult, gErrLog>>

\* What the goroutine leaves in errConsistency when it holds err
StoredError(old, err) == err

\* The goroutine of ConsistencyWaitGroup, under errConsistencyM:
\* errConsistency = err; then wg.Done()
WorkerStore(i) ==
    /\ gWorker[i].pc = "store"
    /\ gErr' = StoredError(gErr, gWorker[i].err)
    /\ gErrLog' = Append(gErrLog, gWorker[i].err)
    /\ gWorker' = [gWorker EXCEPT ![i].pc = "exit"]
    /\ UNCHANGED <<gParams, gPIndexes, gCancel, gpc, gIdx, gResult, gCalls>>

\* ConsistencyWaitGroup after its loop: wg.Wait() returns, and the function
\* returns errConsistency, the cancelled error, or nil
GroupJoin ==
    /\ gpc = "loop" /\ gIdx = Len(gPIndexes)
    /\ \A i \in DOMAIN gWorker : ~Busy(gWorker[i])
    /\ gResult' = IF gErr # GNone THEN gErr
                  ELSE IF gCancel THEN GError("cancelled", 0, <<>>)
                  ELSE GNil
    /\ gpc' = "done"
    /\ UNCHANGED <<gParams, gPIndexes, gCancel, gIdx, gErr, gWorker, gCalls, gErrLog>>

\* The caller closes cancelCh (a nil cancelCh is one that is never closed)
GroupCancelClose ==
    /\ gpc = "loop" /\ ~gCancel
    /\ gCancel' = TRUE
    /\ UNCHANGED <<gParams, gPIndexes, gpc, gIdx, gErr, gResult, gWorker,
                   gCalls, gErrLog>>

InitGroup ==
    /\ gParams \in GroupParams
    /\ gPIndexes \in PIndexLists
    /\ gCancel = FALSE
    /\ gpc = "loop" /\ gIdx = 0 /\ gErr = GNone /\ gResult = GNone
    /\ gWorker = [i \in DOMAIN gPIndexes |-> IdleWorker]
    /\ gCalls = {} /\ gErrLog = <<>>
    /\ VLiteIdle /\ MiscIdle /\ SplitIdle /\ ClusterIdle

NextGroup ==
    /\ \/ \E ok \in BOOLEAN : GroupAdd(ok)
       \/ \E i \in DOMAIN gWorker, k \in GroupKeys : WorkerRange(i, k)
       \/ \E i \in DOMAIN gWorker : WorkerRangeEnd(i)
       \/ \E i \in DOMAIN gWorker, ok \in BOOLEAN : WorkerCallReturns(i, ok)
       \/ \E i \in DOMAIN gWorker : WorkerStore(i)
       \/ GroupJoin
       \/ GroupCancelClose
    /\ UNCHANGED <<vliteVars, miscVars, splitVars, clusterVars>>

SpecGroup == InitGroup /\ [][NextGroup]_vars

\* The calls the group owes: for every local PIndex, every entry of the
\* vector with seq > 0 that names one of its source partitions
OwedCalls ==
    {<<i, k>> \in (DOMAIN gPIndexes) \X (DOMAIN gParams.vector) :
        NeedsWait(gPIndexes[i], gParams.vector, k)}

\* C8 as claimed: when ConsistencyWaitGroup has returned, every goroutine it
\* started has been joined; if it returned nil for a request with a level
\* and a vector, every owed ConsistencyWait has returned nil; and if some
\* wait failed, it returned the first error that was stored.
C8_GroupJoinsAndReturnsFirstError ==
    gpc = "done" =>
        /\ \A i \in DOMAIN gWorker : ~Busy(gWorker[i])
        /\ (gResult = GNil /\ Spawns(gParams)) => OwedCalls \subseteq gCalls
        /\ gErrLog # <<>> => gResult = gErrLog[1]


-----------------------------------------------------------------------------
(* The planner's split of an index into PlanPIndexes, and PlanPIndexName.   *)
(* Strings are sequences of one-character strings; a uint32 is a pair of    *)
(* 16-bit halves [hi, lo].                                                  *)

MaxPartitionsPerPIndex == 2
MaxSourcePartitions == 4

\* The partition ids a data source may give: "471", "1019", "513", "6"
SourcePartitionIds ==
    {<<"4", "7", "1">>, <<"1", "0", "1", "9">>, <<"5", "1", "3">>, <<"6">>}

IndexNames == {<<"i">>, <<"j">>}
IndexUUIDs == {<<"a">>}

\* The lists of distinct partition ids, up to MaxSourcePartitions long
SourcePartitionLists ==
    {l \in UNION {[1..n -> SourcePartitionIds] : n \in 0..MaxSourcePartitions} :
        \A i, j \in 1..Len(l) : l[i] = l[j] => i = j}

HexDigits == <<"0", "1", "2", "3", "4", "5", "6", "7", "8", "9",
               "a", "b", "c", "d", "e", "f">>

\* The byte of a character: ',' is 44, '0'..'9' are 48..57
Ord(c) ==
    IF c = "," THEN 44
    ELSE 47 + (CHOOSE d \in 1..10 : HexDigits[d] = c)

\* The bit of weight w of a XOR b
XorBit(a, b, w) == (((a \div w) + (b \div w)) % 2) * w

\* a XOR b for 16-bit a and b
Xor16(a, b) ==
    XorBit(a, b, 1) + XorBit(a, b, 2) + XorBit(a, b, 4) + XorBit(a, b, 8)
    + XorBit(a, b, 16) + XorBit(a, b, 32) + XorBit(a, b, 64) + XorBit(a, b, 128)
    + XorBit(a, b, 256) + XorBit(a, b, 512) + XorBit(a, b, 1024)
    + XorBit(a, b, 2048) + XorBit(a, b, 4096) + XorBit(a, b, 8192)
    + XorBit(a, b, 16384) + XorBit(a, b, 32768)

\* crc32.IEEE, the reversed polynomial 0xedb88320, as two halves
IEEEHi == 60856
IEEELo == 33568
Mask16 == 65535

\* The CRC of hi, lo shifted right by one bit
ShiftedHi(hi) == hi \div 2
ShiftedLo(hi, lo) == (lo \div 2) + (hi % 2) * 32768

\* n bits of the CRC: shift right by one, and XOR the polynomial in when
\* the bit shifted out is set
RECURSIVE crcBits(_, _, _)
crcBits(hi, lo, n) ==
    IF n = 0 THEN [hi |-> hi, lo |-> lo]
    ELSE IF lo % 2 = 1
    THEN crcBits(Xor16(ShiftedHi(hi), IEEEHi), Xor16(ShiftedLo(hi, lo), IEEELo), n - 1)
    ELSE crcBits(ShiftedHi(hi), ShiftedLo(hi, lo), n - 1)

\* One byte of the CRC
crcByte(c, b) == crcBits(c.hi, Xor16(c.lo, b), 8)

\* A uint32 as its two halves
IsUint32(u) == u.hi \in 0..Mask16 /\ u.lo \in 0..Mask16

\* The bytes of str from the i-th on, one after the other, each on the
\* value the one before has left
RECURSIVE crcUpdate(_, _, _)
crcUpdate(c, str, i) ==
    IF i > Len(str) THEN c
    ELSE LET next == crcByte(c, Ord(str[i]))
         IN  IF IsUint32(next) THEN crcUpdate(next, str, i + 1) ELSE next

\* h := crc32.NewIEEE(); io.WriteString(h, str); h.Sum32()
Sum32(str) ==
    LET c == crcUpdate([hi |-> Mask16, lo |-> Mask16], str, 1)
    IN  [hi |-> Mask16 - c.hi, lo |-> Mask16 - c.lo]

\* The eight hex digits of a uint32, most significant first
Nibbles(u) ==
    <<u.hi \div 4096, (u.hi \div 256) % 16, (u.hi \div 16) % 16, u.hi % 16,
      u.lo \div 4096, (u.lo \div 256) % 16, (u.lo \div 16) % 16, u.lo % 16>>

\* A digit sequence without its leading zeros (one digit at least)
RECURSIVE StripZeros(_)
StripZeros(ds) == IF Len(ds) > 1 /\ ds[1] = 0 THEN StripZeros(Tail(ds)) ELSE ds

\* fmt.Sprintf("%x", u)
SprintfX(u) ==
    LET ds == StripZeros(Nibbles(u)) IN [i \in 1..Len(ds) |-> HexDigits[ds[i] + 1]]

\* strings.Join(a, sep) for a one-character sep
RECURSIVE Join(_, _)
Join(a, sep) ==
    IF Len(a) = 0 THEN <<>>
    ELSE IF Len(a) = 1 THEN a[1]
    ELSE a[1] \o <<sep>> \o Join(Tail(a), sep)

\* PlanPIndexName
PlanPIndexName(indexDef, sourcePartitions) ==
    indexDef.name \o <<"_">> \o indexDef.uuid \o <<"_">> \o SprintfX(Sum32(sourcePartitions))

\* addPlanPIndex of SplitIndexDefIntoPlanPIndexes: the PlanPIndex of a chunk
\* is put in the map under its name
addPlanPIndex(out, indexDef, sourcePartitionsCurr) ==
    LET sourcePartitions == Join(sourcePartitionsCurr, ",")
        name == PlanPIndexName(indexDef, sourcePartitions)
        planPIndex == [Name |-> name,
                       IndexName |-> indexDef.name,
                       IndexUUID |-> indexDef.uuid,
                       SourcePartitions |-> sourcePartitions,
                       chunk |-> sourcePartitionsCurr]
    IN  [n \in (DOMAIN out) \cup {name} |-> IF n = name THEN planPIndex ELSE out[n]]

\* SplitIndexDefIntoPlanPIndexes: when a chunk is full
ChunkFull(curr, max) == max > 0 /\ Len(curr) >= max

\* SplitIndexDefIntoPlanPIndexes: its loop over sourcePartitionsArr, from
\* element i on, then the leftover chunk
RECURSIVE splitLoop(_, _, _, _, _)
splitLoop(indexDef, arr, i, curr, out) ==
    IF i > Len(arr)
    THEN IF Len(curr) > 0 \/ Cardinality(DOMAIN out) <= 0
         THEN addPlanPIndex(out, indexDef, curr)
         ELSE out
    ELSE IF ChunkFull(Append(curr, arr[i]), indexDef.max)
         THEN splitLoop(indexDef, arr, i + 1, <<>>,
                        addPlanPIndex(out, indexDef, Append(curr, arr[i])))
         ELSE splitLoop(indexDef, arr, i + 1, Append(curr, arr[i]), out)

\* The empty map planPIndexesForIndex starts as
NoPlanPIndexes == [n \in {} |-> <<>>]

\* SplitIndexDefIntoPlanPIndexes, DataSourcePartitions having given sParts
SplitIndexDefIntoPlanPIndexes ==
    /\ sDone = "no"
    /\ sOut' = splitLoop(sIndexDef, sParts, 1, <<>>, NoPlanPIndexes)
    /\ sDone' = "ok"
    /\ UNCHANGED <<sIndexDef, sParts>>

\* SplitIndexDefIntoPlanPIndexes, DataSourcePartitions having failed
SplitIndexDefFails ==
    /\ sDone = "no"
    /\ sDone' = "err"
    /\ UNCHANGED <<sIndexDef, sParts, sOut>>

InitSplit ==
    /\ sIndexDef \in [name : IndexNames, uuid : IndexUUIDs,
                      max : 0..MaxPartitionsPerPIndex]
    /\ sParts \in SourcePartitionLists
    /\ sOut = NoPlanPIndexes
    /\ sDone = "no"
    /\ VLiteIdle /\ MiscIdle /\ GroupIdle /\ ClusterIdle

NextSplit ==
    /\ \/ SplitIndexDefIntoPlanPIndexes
       \/ SplitIndexDefFails
    /\ UNCHANGED <<vliteVars, miscVars, groupVars, clusterVars>>

SpecSplit == InitSplit /\ [][NextSplit]_vars

\* The chunks the loop of SplitIndexDefIntoPlanPIndexes cuts arr into
ChunkCount(n, m) == IF n = 0 THEN 1 ELSE (n + m - 1) \div m

ChunkAt(arr, m, k) ==
    SubSeq(arr, (k - 1) * m + 1, IF k * m < Len(arr) THEN k * m ELSE Len(arr))

\* C9 as claimed: for m > 0 the split of L gives one PlanPIndex per chunk of
\* L: the chunks taken in order concatenate to L, each but the last holds m
\* partitions, the last between 1 and m; and one PlanPIndex with no
\* partitions when L is empty.
C9_SplitChunksPartitionL ==
    (sDone = "ok" /\ sIndexDef.max > 0) =>
        LET m == sIndexDef.max
            c == ChunkCount(Len(sParts), m)
        IN  /\ Cardinality(DOMAIN sOut) = c
            /\ \A k \in 1..c :
                  \E n \in DOMAIN sOut : sOut[n].chunk = ChunkAt(sParts, m, k)

\* C10 as claimed: the PlanPIndexes of a plan that are built from different
\* chunks (or index identities) have different names, so that the plan map
\* holds one PlanPIndex per chunk.
C10_NamesAreUnique ==
    sDone = "ok" =>
        LET m == IF sIndexDef.max > 0 THEN sIndexDef.max ELSE Len(sParts) + 1
            c == ChunkCount(Len(sParts), m)
        IN  \A j, k \in 1..c :
               ChunkAt(sParts, m, j) # ChunkAt(sParts, m, k)
                  => PlanPIndexName(sIndexDef, Join(ChunkAt(sParts, m, j), ","))
                        # PlanPIndexName(sIndexDef, Join(ChunkAt(sParts, m, k), ","))

-----------------------------------------------------------------------------
(* The planner: Manager.PlannerOnce, CalcPlan and the config store.  The
   config store, the structural comparison of plans and the placement
   library are not part of the source given; they are modelled from the
   specification of the repository. *)

\* Version strings, as their characters
V09 == <<"0", ".", "9">>
V10 == <<"1", ".", "0">>
V11 == <<"1", ".", "1">>
V101 == <<"1", ".", "0", ".", "1">>
ImplVersions == {V09, V10, V11, V101}

\* mgr.version of every planner
PlannerVersion == V10

DecDigits == <<"0", "1", "2", "3", "4", "5", "6", "7", "8", "9">>

IsDigit(c) == \E d \in 1..10 : DecDigits[d] = c

DigitVal(c) == (CHOOSE d \in 1..10 : DecDigits[d] = c) - 1

RECURSIVE DecVal(_)
DecVal(s) ==
    IF Len(s) = 0 THEN 0
    ELSE DecVal(SubSeq(s, 1, Len(s) - 1)) * 10 + DigitVal(s[Len(s)])

\* strconv.Atoi: an optional sign, then decimal digits
Atoi(s) ==
    LET signed == Len(s) > 0 /\ s[1] \in {"+", "-"}
        digits == IF signed THEN Tail(s) ELSE s
    IN  IF Len(digits) > 0 /\ \A i \in 1..Len(digits) : IsDigit(digits[i])
        THEN [ok |-> TRUE,
              v |-> IF signed /\ s[1] = "-" THEN 0 - DecVal(digits) ELSE DecVal(digits)]
        ELSE [ok |-> FALSE, v |-> 0]

\* A variant of the loop of VersionGTE that takes the shorter of two
\* versions with a common prefix for the greater or equal one
RECURSIVE versionLoopShortWins(_, _, _)
versionLoopShortWins(xa, ya, i) ==
    IF i > Len(xa) THEN TRUE
    ELSE IF i > Len(ya) THEN TRUE
    ELSE LET xv == Atoi(xa[i])
             yv == Atoi(ya[i])
         IN  IF ~xv.ok \/ ~yv.ok THEN FALSE
             ELSE IF xv.v > yv.v THEN TRUE
             ELSE IF xv.v < yv.v THEN FALSE
             ELSE versionLoopShortWins(xa, ya, i + 1)

\* VersionGTE: its loop over the parts of x from the i-th on, and the
\* return after it
RECURSIVE versionLoop(_, _, _)
versionLoop(xa, ya, i) ==
    IF i > Len(xa) THEN Len(xa) >= Len(ya)
    ELSE IF i > Len(ya) THEN TRUE
    ELSE LET xv == Atoi(xa[i])
             yv == Atoi(ya[i])
         IN  IF ~xv.ok THEN FALSE
             ELSE IF ~yv.ok THEN FALSE
             ELSE IF xv.v > yv.v THEN TRUE
             ELSE IF xv.v < yv.v THEN FALSE
             ELSE versionLoop(xa, ya, i + 1)

\* VersionGTE(x, y): x >= y for dotted version strings
VersionGTE(x, y) == versionLoop(Split(x, "."), Split(y, "."), 1)


\* The nodes of the cluster, in the order sort.Strings gives their UUIDs
NodeOrder == <<"n1", "n2">>
Nodes == {NodeOrder[i] : i \in DOMAIN NodeOrder}

\* sort.Strings of a set of node UUIDs
SortNodes(S) == SelectSeq(NodeOrder, LAMBDA n : n \in S)

\* The elements of a sequence
Range(s) == {s[i] : i \in DOMAIN s}

\* A sequence without the later copies of its elements
RECURSIVE Dedupe(_)
Dedupe(s) ==
    IF Len(s) = 0 THEN <<>>
    ELSE LET front == Dedupe(SubSeq(s, 1, Len(s) - 1))
         IN  IF s[Len(s)] \in Range(front) THEN front ELSE Append(front, s[Len(s)])

\* The first k elements of a sequence
TakeSeq(s, k) == SubSeq(s, 1, IF k < Len(s) THEN k ELSE Len(s))

\* PIndexImplTypes after the init functions: what each type registers
PIndexImplTypes ==
    [t \in {"vlite", "vlite-mem", "alias"} |->
        [New |-> t # "alias", Open |-> t # "alias"]]

\* The index types of the model: an engine, the alias and an unknown tag
IndexTypes == {"vlite", "alias", "nope"}

\* CalcPlan: the test that makes it skip an indexDef
NoEngine(type) ==
    \/ type \notin DOMAIN PIndexImplTypes
    \/ ~PIndexImplTypes[type].New
    \/ ~PIndexImplTypes[type].Open

\* What DataSourcePartitions gives for every index of the model: "6", "513"
PlanSourcePartitions == <<<<"6">>, <<"5", "1", "3">>>>

\* A nil *PlanPIndexes, and NewPlanPIndexes(version)
NoPlan == [nil |-> TRUE]
NewPlanPIndexes(version) ==
    [nil |-> FALSE, ImplVersion |-> version,
     PlanPIndexes |-> NoPlanPIndexes, Warnings |-> NoPlanPIndexes]

\* m with the value v under the key k
MapPut(m, k, v) == [x \in (DOMAIN m) \cup {k} |-> IF x = k THEN v ELSE m[x]]

\* The maps a and b, b winning for the keys of both
MapMerge(a, b) ==
    [x \in (DOMAIN a) \cup (DOMAIN b) |-> IF x \in DOMAIN b THEN b[x] ELSE a[x]]

\* StringsToMap(nodeDef.Tags): nil for nil Tags
HasTag(nodeDef, tag) == ~nodeDef.TagsNil /\ tag \in Range(nodeDef.Tags)

\* CalcNodesLayout; the NodeDefs of the model have neither Weight nor
\* Container, so that nodeWeights and nodeHierarchy are empty
CalcNodesLayout(nodeDefs, planPIndexesPrev) ==
    LET nodeUUIDs == {nodeDefs.NodeDefs[k].UUID : k \in
                        {k \in DOMAIN nodeDefs.NodeDefs :
                            \/ nodeDefs.NodeDefs[k].TagsNil
                            \/ HasTag(nodeDefs.NodeDefs[k], "pindex")}}
        nodeUUIDsPrev ==
            IF planPIndexesPrev.nil THEN {}
            ELSE UNION {DOMAIN planPIndexesPrev.PlanPIndexes[n].Nodes :
                            n \in DOMAIN planPIndexesPrev.PlanPIndexes}
        all == nodeUUIDs \cup nodeUUIDsPrev
    IN  [nodeUUIDsAll |-> SortNodes(all),
         nodeUUIDsToAdd |-> SortNodes(all \ nodeUUIDsPrev),
         nodeUUIDsToRemove |-> SortNodes(all \ nodeUUIDs)]

\* PlanPIndexNodeRefs.Less
RefLess(nodes, a, b) == nodes[a].Priority < nodes[b].Priority

\* BlancePlanPIndexes: what sort.Sort(planPIndexNodeRefs) may leave of the
\* nodes of a previous PlanPIndex.  The refs are appended in the order of
\* the map iteration, and the sort moves two of them only when Less holds:
\* tie is the order equal priorities come out in.
SortedRefs(nodes, tie) ==
    LET pos(n) == CHOOSE i \in DOMAIN tie : tie[i] = n
        before(a, b) ==
            \/ RefLess(nodes, a, b)
            \/ ~RefLess(nodes, b, a) /\ pos(a) < pos(b)
        rank(n) == Cardinality({m \in DOMAIN nodes : before(m, n)}) + 1
    IN  [i \in 1..Cardinality(DOMAIN nodes) |->
            CHOOSE n \in DOMAIN nodes : rank(n) = i]

\* BlancePlanPIndexes: the blance.Partition of the previous map for the
\* PlanPIndex called name
BlancePrevPartition(name, planPIndexesPrev, tie) ==
    IF planPIndexesPrev.nil \/ name \notin DOMAIN planPIndexesPrev.PlanPIndexes
    THEN [primary |-> <<>>, replica |-> <<>>]
    ELSE LET nodes == planPIndexesPrev.PlanPIndexes[name].Nodes
             refs == SortedRefs(nodes, tie)
         IN  [primary |-> SelectSeq(refs, LAMBDA n : nodes[n].Priority <= 0),
              replica |-> SelectSeq(refs, LAMBDA n : ~(nodes[n].Priority <= 0))]

\* BlancePartitionModel: the copies each state wants
ModelConstraints(indexDef) == [primary |-> 1, replica |-> indexDef.replicas]

\* blance.PlanNextMap for one partition, by the placement rules of the
\* specification: the constraint counts are honoured as far as there are
\* nodes, a node stays on its previous state when it may, a previous
\* replica is promoted before a new node is taken, and new nodes are taken
\* in the order of their UUIDs
PlanNextPartition(prev, nodesAll, nodesToRemove, constraints) ==
    LET cands == SelectSeq(nodesAll, LAMBDA n : n \notin Range(nodesToRemove))
        ok(n) == n \in Range(cands)
        primary == TakeSeq(Dedupe(SelectSeq(prev.primary \o prev.replica, ok)
                                     \o cands), constraints.primary)
        free(n) == ok(n) /\ n \notin Range(primary)
        replica == TakeSeq(Dedupe(SelectSeq(prev.replica \o prev.primary, free)
                                     \o SelectSeq(cands, free)), constraints.replica)
    IN  [primary |-> primary, replica |-> replica,
         warning |-> Len(primary) < constraints.primary
                        \/ Len(replica) < constraints.replica]

\* The position of an element in a sequence without duplicates
PosIn(s, x) == CHOOSE i \in DOMAIN s : s[i] = x

\* indexDef.PlanParams.NodePlanParams: the overrides of an indexDef, each for
\* a node and a PlanPIndex (the empty name for every PlanPIndex of the
\* index); nil for the indexDefs that are given none
NodePlanParamsOf(indexDef) ==
    IF "nodePlanParams" \in DOMAIN indexDef THEN indexDef.nodePlanParams ELSE {}

\* GetNodePlanParam found an override for the node and the PlanPIndex
HasNodePlanParam(nodePlanParams, nodeUUID, planPIndexName) ==
    \E o \in nodePlanParams : o.node = nodeUUID /\ o.pindex \in {planPIndexName, <<>>}

\* GetNodePlanParam: the override for the node and the PlanPIndex, the one
\* that names the PlanPIndex before the one for every PlanPIndex
GetNodePlanParam(nodePlanParams, nodeUUID, planPIndexName) ==
    IF \E o \in nodePlanParams : o.node = nodeUUID /\ o.pindex = planPIndexName
    THEN CHOOSE o \in nodePlanParams : o.node = nodeUUID /\ o.pindex = planPIndexName
    ELSE CHOOSE o \in nodePlanParams : o.node = nodeUUID /\ o.pindex = <<>>

\* BlancePlanPIndexes: the PlanPIndexNode of a node, with the priority given
PlanPIndexNodeOf(nodePlanParams, nodeUUID, planPIndexName, priority) ==
    IF HasNodePlanParam(nodePlanParams, nodeUUID, planPIndexName)
    THEN [CanRead |-> GetNodePlanParam(nodePlanParams, nodeUUID, planPIndexName).CanRead,
          CanWrite |-> GetNodePlanParam(nodePlanParams, nodeUUID, planPIndexName).CanWrite,
          Priority |-> priority]
    ELSE [CanRead |-> TRUE, CanWrite |-> TRUE, Priority |-> priority]

\* A variant of PlanPIndexNodes that numbers the replicas from 0
PlanPIndexNodesFromZero(indexDef, planPIndexName, part) ==
    [n \in Range(part.primary) \cup Range(part.replica) |->
        PlanPIndexNodeOf(NodePlanParamsOf(indexDef), n, planPIndexName,
            IF n \in Range(part.replica) THEN PosIn(part.replica, n) - 1 ELSE 0)]

\* BlancePlanPIndexes: the Nodes of the PlanPIndex called planPIndexName from
\* its blance.Partition: the loop over the primary bucket, then the loop
\* over the replica bucket, whose i-th node (from 0) gets the priority i + 1
PlanPIndexNodes(indexDef, planPIndexName, part) ==
    [n \in Range(part.primary) \cup Range(part.replica) |->
        PlanPIndexNodeOf(NodePlanParamsOf(indexDef), n, planPIndexName,
            IF n \in Range(part.replica) THEN (PosIn(part.replica, n) - 1) + 1 ELSE 0)]

\* BlancePlanPIndexes: planPIndexesForIndex with the Nodes the placement
\* gives, and the warnings
BlancePlanPIndexes(indexDef, planPIndexesForIndex, planPIndexesPrev, layout, tie) ==
    LET next(name) ==
            PlanNextPartition(BlancePrevPartition(name, planPIndexesPrev, tie),
                              layout.nodeUUIDsAll, layout.nodeUUIDsToRemove,
                              ModelConstraints(indexDef))
    IN  [PlanPIndexes |->
            [name \in DOMAIN planPIndexesForIndex |->
                [planPIndexesForIndex[name] EXCEPT !.Nodes =
                    PlanPIndexNodes(indexDef, name, next(name))]],
         Warnings |-> {name \in DOMAIN planPIndexesForIndex : next(name).warning}]


\* NewUUID for the PlanPIndex called name: a value no other PlanPIndex has
\* had, here the run that makes it (who plans, on which CAS) and the name
NewUUID(run, name) == [by |-> run.by, cas |-> run.cas, of |-> name]

\* SplitIndexDefIntoPlanPIndexes for the indexDefs of the model, by what it
\* reads of them, the data source answering with PlanSourcePartitions
PlannerChunks ==
    [k \in IndexNames \X (IndexUUIDs \cup {<<"b">>}) \X {1, 2} |->
        splitLoop([name |-> k[1], uuid |-> k[2], max |-> k[3]],
                  PlanSourcePartitions, 1, <<>>, NoPlanPIndexes)]

\* SplitIndexDefIntoPlanPIndexes as CalcPlan calls it: planPIndexesForIndex,
\* every PlanPIndex with a new UUID and no Nodes
PlannerSplit(indexDef, run) ==
    LET chunks == PlannerChunks[<<indexDef.name, indexDef.uuid, indexDef.max>>]
    IN  [name \in DOMAIN chunks |->
            [Name |-> name,
             UUID |-> NewUUID(run, name),
             IndexType |-> indexDef.type,
             IndexName |-> chunks[name].IndexName,
             IndexUUID |-> chunks[name].IndexUUID,
             SourcePartitions |-> chunks[name].SourcePartitions,
             Nodes |-> NoPlanPIndexes]]

\* A frozen indexDef for which CalcPlan copies whatever the previous plan has
\* under the name of the index
PlanFrozenCopyByName(indexDef, planPIndexesPrev) ==
    IF planPIndexesPrev.nil THEN NoPlanPIndexes
    ELSE [name \in {n \in DOMAIN planPIndexesPrev.PlanPIndexes :
                       planPIndexesPrev.PlanPIndexes[n].IndexName = indexDef.name}
            |-> planPIndexesPrev.PlanPIndexes[name]]

\* A frozen indexDef for which CalcPlan copies nothing
PlanFrozenCopyNothing(indexDef, planPIndexesPrev) == NoPlanPIndexes

\* CalcPlan for a frozen indexDef: the PlanPIndexes of the previous plan it
\* puts in the new one, under the names they had
PlanFrozenCopy(indexDef, planPIndexesPrev) ==
    IF planPIndexesPrev.nil THEN NoPlanPIndexes
    ELSE [name \in {n \in DOMAIN planPIndexesPrev.PlanPIndexes :
                       /\ planPIndexesPrev.PlanPIndexes[n].IndexName = indexDef.name
                       /\ planPIndexesPrev.PlanPIndexes[n].IndexUUID = indexDef.uuid}
            |-> planPIndexesPrev.PlanPIndexes[name]]

\* CalcPlan for an indexDef it would skip, when it plans it all the same
SkipsNothing(indexDef, srcOk) == FALSE

\* CalcPlan: the indexDefs it goes past without a PlanPIndex: no engine
\* for the type, or no answer of the data source
Skips(indexDef, srcOk) == NoEngine(indexDef.type) \/ ~srcOk

\* CalcPlan: the body of its loop for one indexDef; out is planPIndexes
CalcPlanIndex(indexDef, out, planPIndexesPrev, layout, srcOk, tie, run) ==
    IF indexDef.frozen
    THEN [out EXCEPT !.PlanPIndexes =
                MapMerge(@, PlanFrozenCopy(indexDef, planPIndexesPrev))]
    ELSE IF Skips(indexDef, srcOk) THEN out
    ELSE LET forIndex == PlannerSplit(indexDef, run)
             b == BlancePlanPIndexes(indexDef, forIndex, planPIndexesPrev, layout, tie)
         IN  [out EXCEPT !.PlanPIndexes = MapMerge(@, b.PlanPIndexes),
                         !.Warnings = MapPut(@, indexDef.name, b.Warnings)]

\* CalcPlan: its loop, over the indexDefs in the order the map iteration
\* gives, from the i-th on
RECURSIVE calcPlanLoop(_, _, _, _, _, _, _, _, _)
calcPlanLoop(indexDefs, order, i, out, planPIndexesPrev, layout, srcOk, tie, run) ==
    IF i > Len(order) THEN out
    ELSE calcPlanLoop(indexDefs, order, i + 1,
            CalcPlanIndex(indexDefs.IndexDefs[order[i]], out, planPIndexesPrev,
                          layout, srcOk, tie, run),
            planPIndexesPrev, layout, srcOk, tie, run)

\* CalcPlan.  srcOk: DataSourcePartitions answers; order: the order the
\* iteration over indexDefs.IndexDefs takes; tie: the order equal
\* priorities come out of the sort in; run: who calls it, on which CAS
CalcPlan(indexDefs, nodeDefs, planPIndexesPrev, version, srcOk, order, tie, run) ==
    IF indexDefs.nil \/ nodeDefs.nil THEN NoPlan
    ELSE calcPlanLoop(indexDefs, order, 1, NewPlanPIndexes(version),
                      planPIndexesPrev, CalcNodesLayout(nodeDefs, planPIndexesPrev),
                      srcOk, tie, run)


\* The planners, each named by the UUID of its node (mgr.uuid)
Planners == Nodes

\* The errors of PlannerOnce
ErrVersionTooLow == "planner: version too low"
ErrNoIndexDefs == "planner: ended since no IndexDefs"
ErrIndexDefsVersion == "planner: indexDefs.ImplVersion > version"
ErrNoNodeDefs == "planner: ended since no NodeDefs"
ErrNodeDefsVersion == "planner: nodeDefs.ImplVersion > version"
ErrNoNodeDef == "planner: no NodeDef"
ErrNodeDefVersion == "planner: ended since NodeDef.ImplVersion != version"
ErrNodeDefUUID == "planner: ended since NodeDef.UUID != uuid"
ErrNotPlanner == "planner: ended since node is not a planner"
ErrPlanVersion == "planner: planPIndexesPrev.ImplVersion > version"
ErrCouldNotSave == "planner: could not save new plan, perhaps a concurrent planner won"

\* CheckVersion, as the specification has it: a version lower than the one
\* the config store holds is too low
CheckVersion(stored, version) == VersionGTE(version, stored)

\* PlannerCheckVersion
PlannerCheckVersion(version) ==
    IF CheckVersion(cfgVersion, version) THEN "" ELSE ErrVersionTooLow

\* PlannerGetIndexDefs
PlannerGetIndexDefs(version) ==
    IF cfgIndexDefs.nil THEN ErrNoIndexDefs
    ELSE IF VersionGTE(version, cfgIndexDefs.ImplVersion) = FALSE
    THEN ErrIndexDefsVersion
    ELSE ""

\* PlannerGetNodeDefs: isPlanner
IsPlanner(nodeDef) ==
    IF ~nodeDef.TagsNil /\ Len(nodeDef.Tags) > 0
    THEN \E i \in DOMAIN nodeDef.Tags : nodeDef.Tags[i] = "planner"
    ELSE TRUE

\* PlannerGetNodeDefs
PlannerGetNodeDefs(version, uuid) ==
    IF cfgNodeDefs.nil THEN ErrNoNodeDefs
    ELSE IF VersionGTE(version, cfgNodeDefs.ImplVersion) = FALSE
    THEN ErrNodeDefsVersion
    ELSE IF uuid \notin DOMAIN cfgNodeDefs.NodeDefs THEN ErrNoNodeDef
    ELSE IF cfgNodeDefs.NodeDefs[uuid].ImplVersion # version THEN ErrNodeDefVersion
    ELSE IF cfgNodeDefs.NodeDefs[uuid].UUID # uuid THEN ErrNodeDefUUID
    ELSE IF ~IsPlanner(cfgNodeDefs.NodeDefs[uuid]) THEN ErrNotPlanner
    ELSE ""

\* PlannerGetPlanPIndexes: planPIndexesPrev
PlanPIndexesPrev(version) ==
    IF cfgPlan.nil THEN NewPlanPIndexes(version) ELSE cfgPlan

\* PlannerGetPlanPIndexes
PlannerGetPlanPIndexes(version) ==
    IF VersionGTE(version, PlanPIndexesPrev(version).ImplVersion) = FALSE
    THEN ErrPlanVersion
    ELSE ""

\* PlannerOnce up to CalcPlan: the error it ends with, "" for none
PlannerGate(version, uuid) ==
    IF PlannerCheckVersion(version) # "" THEN PlannerCheckVersion(version)
    ELSE IF PlannerGetIndexDefs(version) # "" THEN PlannerGetIndexDefs(version)
    ELSE IF PlannerGetNodeDefs(version, uuid) # "" THEN PlannerGetNodeDefs(version, uuid)
    ELSE PlannerGetPlanPIndexes(version)

\* A plan without what a comparison by structure leaves out
Structure(plan) ==
    IF plan.nil THEN <<>>
    ELSE [name \in DOMAIN plan.PlanPIndexes |->
            [plan.PlanPIndexes[name] EXCEPT !.UUID = <<>>]]

\* SamePlanPIndexes, as the specification has it: equal by structure, the
\* UUIDs of the PlanPIndexes left out
SamePlanPIndexes(a, b) == Structure(a) = Structure(b)

\* The orders an iteration over the keys of a map may take
MapOrders(m) ==
    {o \in [1..Cardinality(DOMAIN m) -> DOMAIN m] :
        \A i, j \in DOMAIN o : o[i] = o[j] => i = j}

\* The orders sort.Sort may leave nodes of equal priority in
TieOrders == {o \in [DOMAIN NodeOrder -> Nodes] :
                 \A i, j \in DOMAIN o : o[i] = o[j] => i = j}

Idle(p) == plpc[p] = "idle"

NoRead == <<>>

\* History of the runs: clean, no change of the config since the inputs of
\* the last run that has ended were read, but for its own write; dirty, the
\* runs in progress whose inputs have changed; b2b, the runs in progress
\* that started in a clean state
RunRead(p, ended) ==
    [clean |-> IF ended THEN TRUE ELSE plQuiet.clean,
     dirty |-> plQuiet.dirty \ {p},
     b2b |-> IF plQuiet.clean /\ ~ended THEN plQuiet.b2b \cup {p}
             ELSE plQuiet.b2b \ {p}]

RunEnded(p, wrote) ==
    [clean |-> p \notin plQuiet.dirty,
     dirty |-> IF wrote
               THEN (plQuiet.dirty \cup {q \in Planners : plpc[q] = "commit"}) \ {p}
               ELSE plQuiet.dirty \ {p},
     b2b |-> IF wrote THEN {} ELSE plQuiet.b2b \ {p}]

ConfigChanged ==
    [clean |-> FALSE,
     dirty |-> {q \in Planners : plpc[q] = "commit"},
     b2b |-> {}]

\* PlannerOnce, from its start to the return of CalcPlan
PlannerOnceRead(p) ==
    /\ Idle(p)
    /\ LET err == PlannerGate(PlannerVersion, p)
       IN  IF err # ""
           THEN /\ plResult' = [by |-> p, changed |-> FALSE, err |-> err]
                /\ plQuiet' = RunRead(p, TRUE)
                /\ UNCHANGED <<plpc, plRead, plPlan>>
           ELSE \E order \in MapOrders(cfgIndexDefs.IndexDefs), tie \in TieOrders :
                /\ plRead' = [plRead EXCEPT ![p] =
                      [indexDefs |-> cfgIndexDefs, nodeDefs |-> cfgNodeDefs,
                       prev |-> PlanPIndexesPrev(PlannerVersion), cas |-> cfgCas,
                       srcOk |-> srcUp]]
                /\ plPlan' = [plPlan EXCEPT ![p] =
                      CalcPlan(cfgIndexDefs, cfgNodeDefs,
                               PlanPIndexesPrev(PlannerVersion), PlannerVersion,
                               srcUp, order, tie, [by |-> p, cas |-> cfgCas])]
                /\ plpc' = [plpc EXCEPT ![p] = "commit"]
                /\ plQuiet' = RunRead(p, FALSE)
                /\ UNCHANGED plResult
    /\ UNCHANGED cfgVars

\* CfgSetPlanPIndexes: the CAS given is the one the key has
CasMatches(cas) == cas = cfgCas

\* A run that never finds its plan the same as the previous one
PlanUnchangedNever(p) == FALSE

\* Plan: the plan calculated is the same as the previous plan
PlanUnchanged(p) == SamePlanPIndexes(plPlan[p], plRead[p].prev)

\* A run that gives the config store the CAS the key has at the write
SaveCasLatest(p) == cfgCas

\* Plan: the CAS given to CfgSetPlanPIndexes is the one that came with the
\* previous plan
SaveCas(p) == plRead[p].cas

\* PlannerOnce, from the comparison with the previous plan to its return
PlannerOnceCommit(p) ==
    /\ plpc[p] = "commit"
    /\ plpc' = [plpc EXCEPT ![p] = "idle"]
    /\ plRead' = [plRead EXCEPT ![p] = NoRead]
    /\ plPlan' = [plPlan EXCEPT ![p] = NoPlan]
    /\ IF PlanUnchanged(p)
       THEN /\ plResult' = [by |-> p, changed |-> FALSE, err |-> ""]
            /\ plQuiet' = RunEnded(p, FALSE)
            /\ UNCHANGED <<cfgPlan, cfgCas>>
       ELSE IF CasMatches(SaveCas(p))
       THEN /\ cfgPlan' = plPlan[p]
            /\ cfgCas' = cfgCas + 1
            /\ plResult' = [by |-> p, changed |-> TRUE, err |-> ""]
            /\ plQuiet' = RunEnded(p, TRUE)
       ELSE /\ plResult' = [by |-> p, changed |-> FALSE, err |-> ErrCouldNotSave]
            /\ plQuiet' = RunEnded(p, FALSE)
            /\ UNCHANGED <<cfgPlan, cfgCas>>
    /\ UNCHANGED <<cfgVersion, cfgIndexDefs, cfgNodeDefs, srcUp, adminOps>>


\* How many changes of the configuration a run of the model has
MaxAdminOps == 1

\* The index definitions an administrator may give the index called name
IndexDefChoices(name) ==
    [name : {name}, uuid : IndexUUIDs, type : IndexTypes, frozen : BOOLEAN,
     max : {1, 2}, replicas : {0, 1}]

\* The tags a node may register with; TagsNil stands for no tags given
NodeDefChoices(uuid) ==
    {[UUID |-> uuid, ImplVersion |-> PlannerVersion, TagsNil |-> TRUE, Tags |-> <<>>],
     [UUID |-> uuid, ImplVersion |-> PlannerVersion, TagsNil |-> FALSE,
      Tags |-> <<"planner">>],
     [UUID |-> uuid, ImplVersion |-> PlannerVersion, TagsNil |-> FALSE,
      Tags |-> <<"pindex">>]}

\* An index is created or changed (index definitions are set under their name)
AdminSetIndexDef(name, indexDef) ==
    /\ adminOps < MaxAdminOps
    /\ ~cfgIndexDefs.nil
    /\ IF name \in DOMAIN cfgIndexDefs.IndexDefs
       THEN cfgIndexDefs.IndexDefs[name] # indexDef ELSE TRUE
    /\ cfgIndexDefs' = [cfgIndexDefs EXCEPT !.IndexDefs = MapPut(@, name, indexDef)]
    /\ adminOps' = adminOps + 1
    /\ plQuiet' = ConfigChanged
    /\ UNCHANGED <<cfgVersion, cfgNodeDefs, cfgPlan, cfgCas, srcUp,
                   plpc, plRead, plPlan, plResult>>

\* A node registers as wanted, or registers again with other tags
AdminSetNodeDef(uuid, nodeDef) ==
    /\ adminOps < MaxAdminOps
    /\ ~cfgNodeDefs.nil
    /\ IF uuid \in DOMAIN cfgNodeDefs.NodeDefs
       THEN cfgNodeDefs.NodeDefs[uuid] # nodeDef ELSE TRUE
    /\ cfgNodeDefs' = [cfgNodeDefs EXCEPT !.NodeDefs = MapPut(@, uuid, nodeDef)]
    /\ adminOps' = adminOps + 1
    /\ plQuiet' = ConfigChanged
    /\ UNCHANGED <<cfgVersion, cfgIndexDefs, cfgPlan, cfgCas, srcUp,
                   plpc, plRead, plPlan, plResult>>

\* A node is taken out of the wanted nodes
AdminRemoveNodeDef(uuid) ==
    /\ adminOps < MaxAdminOps
    /\ ~cfgNodeDefs.nil
    /\ uuid \in DOMAIN cfgNodeDefs.NodeDefs
    /\ cfgNodeDefs' = [cfgNodeDefs EXCEPT !.NodeDefs =
                          [k \in (DOMAIN @) \ {uuid} |-> @[k]]]
    /\ adminOps' = adminOps + 1
    /\ plQuiet' = ConfigChanged
    /\ UNCHANGED <<cfgVersion, cfgIndexDefs, cfgPlan, cfgCas, srcUp,
                   plpc, plRead, plPlan, plResult>>

\* The data source goes away or comes back
SourceChange ==
    /\ adminOps < MaxAdminOps
    /\ srcUp' = ~srcUp
    /\ adminOps' = adminOps + 1
    /\ plQuiet' = ConfigChanged
    /\ UNCHANGED <<cfgVersion, cfgIndexDefs, cfgNodeDefs, cfgPlan, cfgCas,
                   plpc, plRead, plPlan, plResult>>

\* The second index of the model, when there is one
SecondIndexDefs ==
    {[name |-> <<"j">>, uuid |-> <<"a">>, type |-> t, frozen |-> FALSE,
      max |-> 2, replicas |-> 0] : t \in IndexTypes}

\* The IndexDefs the planner specification starts with: the index "i" with
\* an engine, and perhaps the index "j"
InitIndexDefs ==
    LET first == {d \in IndexDefChoices(<<"i">>) : d.type = "vlite" /\ ~d.frozen}
    IN  {[x \in {<<"i">>} |-> d] : d \in first}
        \cup {[x \in {<<"i">>, <<"j">>} |-> IF x = <<"i">> THEN d ELSE e] :
                d \in first, e \in SecondIndexDefs}

\* The wanted NodeDefs it starts with: n1, and perhaps n2, without tags
InitNodeDefs ==
    {[n \in S |-> [UUID |-> n, ImplVersion |-> PlannerVersion,
                   TagsNil |-> TRUE, Tags |-> <<>>]] : S \in {{"n1"}, Nodes}}

PlannersIdle ==
    /\ plpc = [p \in Planners |-> "idle"]
    /\ plRead = [p \in Planners |-> NoRead]
    /\ plPlan = [p \in Planners |-> NoPlan]
    /\ plResult = [by |-> "none", changed |-> FALSE, err |-> ""]
    /\ plQuiet = [clean |-> FALSE, dirty |-> {}, b2b |-> {}]

\* A cluster with its definitions registered and nothing planned yet; the
\* planner of n1 runs, and the configuration changes under it
InitPlan ==
    /\ cfgVersion = PlannerVersion
    /\ \E defs \in InitIndexDefs :
          cfgIndexDefs = [nil |-> FALSE, ImplVersion |-> PlannerVersion,
                          IndexDefs |-> defs]
    /\ \E defs \in InitNodeDefs :
          cfgNodeDefs = [nil |-> FALSE, ImplVersion |-> PlannerVersion,
                         NodeDefs |-> defs]
    /\ cfgPlan = NoPlan
    /\ cfgCas = 0
    /\ srcUp = TRUE
    /\ adminOps = 0
    /\ PlannersIdle
    /\ AliasIdle /\ RebalIdle /\ LoopIdle
    /\ VLiteIdle /\ MiscIdle /\ GroupIdle /\ SplitIdle

NextPlan ==
    /\ \/ PlannerOnceRead("n1")
       \/ PlannerOnceCommit("n1")
       \/ \E d \in IndexDefChoices(<<"i">>) : AdminSetIndexDef(<<"i">>, d)
       \/ \E n \in Nodes : \E d \in NodeDefChoices(n) : AdminSetNodeDef(n, d)
       \/ \E n \in Nodes : AdminRemoveNodeDef(n)
       \/ SourceChange
    /\ UNCHANGED <<vliteVars, miscVars, groupVars, splitVars, aliasVars, rebalVars, loopVars>>

SpecPlan == InitPlan /\ [][NextPlan]_vars


\* ---------------------------------------------------------------------
\* The rebalancer of cmd/mcp
\* ---------------------------------------------------------------------

\* The errors of the rebalancer
ErrOpWasAdd == "assignPartitionCurrStates: op was add when exists"
ErrNoIndexDef == "assignPartition: no indexDef"
ErrNoPlanPIndex == "assignPartition: no planPIndex"
ErrAlreadyExists == "assignPartition: planPIndex already exists"
ErrMissing == "assignPartition: planPIndex missing"
ErrUpdatePlan == "assignPartition: update plan, perhaps a concurrent planner won"
ErrNoPartitions == "planner: could not get partitions"

\* PlannerGetPlan for a caller that is no node, as the specification has
\* it: the checks of the planner on the version, the IndexDefs, the
\* NodeDefs and the plan, without those on a NodeDef of its own
PlannerGetPlan(version) ==
    IF PlannerCheckVersion(version) # "" THEN PlannerCheckVersion(version)
    ELSE IF PlannerGetIndexDefs(version) # "" THEN PlannerGetIndexDefs(version)
    ELSE IF cfgNodeDefs.nil THEN ErrNoNodeDefs
    ELSE IF VersionGTE(version, cfgNodeDefs.ImplVersion) = FALSE
    THEN ErrNodeDefsVersion
    ELSE PlannerGetPlanPIndexes(version)

\* CasePlanFrozen, as the specification has it: a frozen indexDef keeps the
\* plan it has, and is not rebalanced
CasePlanFrozen(indexDef) == indexDef.frozen

\* BlanceMap, as the specification has it: per PlanPIndex of the index, the
\* nodes planPIndexes gives it, by state
BlanceMap(planPIndexesForIndex, planPIndexes) ==
    [name \in DOMAIN planPIndexesForIndex |->
        IF planPIndexes.nil \/ name \notin DOMAIN planPIndexes.PlanPIndexes
        THEN [primary |-> {}, replica |-> {}]
        ELSE LET nodes == planPIndexes.PlanPIndexes[name].Nodes
             IN  [primary |-> {n \in DOMAIN nodes : nodes[n].Priority <= 0},
                  replica |-> {n \in DOMAIN nodes : ~(nodes[n].Priority <= 0)}]]

\* The operation that brings a node to the state, given where it was
OpOf(beg, node, state) ==
    IF state = "primary" THEN (IF node \in beg.replica THEN "promote" ELSE "add")
    ELSE IF state = "replica" THEN (IF node \in beg.primary THEN "demote" ELSE "add")
    ELSE "del"

\* The steps that bring the nodes of s to the state, in the order of their
\* UUIDs
StepsOf(s, state, beg) ==
    LET nodes == SortNodes(s)
    IN  [i \in DOMAIN nodes |->
            [node |-> nodes[i], state |-> state, op |-> OpOf(beg, nodes[i], state)]]

\* The moves of the orchestrator for one partition, as the specification
\* has them: the steps that take the partition from beg to end, a node
\* added or promoted before a node is taken away
CalcPartitionMoves(beg, end) ==
    StepsOf(end.primary \ beg.primary, "primary", beg)
    \o StepsOf(end.replica \ beg.replica, "replica", beg)
    \o StepsOf((beg.primary \cup beg.replica) \ (end.primary \cup end.replica),
               "", beg)

\* calcBegEndMaps: endPlanPIndexesForIndex with the nodes BlancePlanPIndexes
\* gives it
EndPlanPIndexesForIndex(indexDef, begPlanPIndexes, layout, tie, run) ==
    BlancePlanPIndexes(indexDef, PlannerSplit(indexDef, run), begPlanPIndexes,
                       layout, tie).PlanPIndexes

\* r.endPlanPIndexes with the PlanPIndexes given
EndPlanPIndexes(planPIndexes) ==
    [NewPlanPIndexes(PlannerVersion) EXCEPT !.PlanPIndexes = planPIndexes]

\* calcBegEndMaps and the orchestrator: the moves it is to make, per
\* partition of the index
IndexMoves(forIndex, begPlanPIndexes) ==
    [name \in DOMAIN forIndex |->
        CalcPartitionMoves(BlanceMap(forIndex, begPlanPIndexes)[name],
                           BlanceMap(forIndex, EndPlanPIndexes(forIndex))[name])]

\* The index the model rebalances
RebalIndex == <<"i">>

NoStep == <<>>

NoMoves == <<>>

NoMovesLeft(moves) == \A name \in DOMAIN moves : moves[name] = <<>>

\* runIndex up to the start of the orchestrator: its error, the
\* PlanPIndexes it has put in r.endPlanPIndexes, and the moves to make
RunIndex(indexDef, begPlanPIndexes, layout, tie, run) ==
    IF CasePlanFrozen(indexDef)
    THEN [err |-> "", end |-> PlanFrozenCopy(indexDef, begPlanPIndexes),
          moves |-> NoMoves]
    ELSE IF ~srcUp
    THEN [err |-> ErrNoPartitions, end |-> NoPlanPIndexes, moves |-> NoMoves]
    ELSE [err |-> "",
          end |-> EndPlanPIndexesForIndex(indexDef, begPlanPIndexes, layout, tie, run),
          moves |-> IndexMoves(EndPlanPIndexesForIndex(indexDef, begPlanPIndexes,
                                                       layout, tie, run),
                               begPlanPIndexes)]

\* run: runIndex for the indexDefs read, which are those of RebalIndex or
\* none
Run(indexDefs, begPlanPIndexes, layout, tie, run) ==
    IF RebalIndex \in DOMAIN indexDefs.IndexDefs
    THEN RunIndex(indexDefs.IndexDefs[RebalIndex], begPlanPIndexes, layout, tie, run)
    ELSE [err |-> "", end |-> NoPlanPIndexes, moves |-> NoMoves]

\* The rebalancer as runIndex leaves it
Started(r) ==
    /\ rEnd' = EndPlanPIndexes(r.end)
    /\ rMoves' = r.moves
    /\ rErrors' = IF r.err = "" THEN <<>> ELSE <<r.err>>
    /\ rpc' = IF NoMovesLeft(r.moves) THEN "done" ELSE "moves"

\* runRebalancer, run and runIndex up to the start of the orchestrator
RunRebalancer ==
    /\ rpc = "idle"
    /\ IF PlannerGetPlan(PlannerVersion) # ""
       THEN /\ rpc' = "done"
            /\ rErrors' = <<PlannerGetPlan(PlannerVersion)>>
            /\ UNCHANGED <<rBeg, rEnd, rMoves>>
       ELSE /\ rBeg' = PlanPIndexesPrev(PlannerVersion)
            /\ \E tie \in TieOrders :
                  Started(Run(cfgIndexDefs, PlanPIndexesPrev(PlannerVersion),
                              CalcNodesLayout(cfgNodeDefs, PlanPIndexesPrev(PlannerVersion)),
                              tie, [by |-> "mcp", cas |-> cfgCas]))
    /\ UNCHANGED <<rCurr, rStep, cfgVars, planVars>>

\* A variant of assignPartitionCurrStates that lets every step pass
AssignPartitionCurrStatesPass(partition, step) == ""

\* assignPartitionCurrStates: the error it returns, "" for none
AssignPartitionCurrStates(partition, step) ==
    IF /\ step.op = "add"
       /\ <<partition, step.node>> \in DOMAIN rCurr
       /\ rCurr[<<partition, step.node>>].state # ""
    THEN ErrOpWasAdd
    ELSE ""

\* assignPartition, from the reads of the config store on: the error they
\* end in, "" for none
AssignPartitionGets ==
    IF PlannerGetIndexDefs(PlannerVersion) # "" THEN PlannerGetIndexDefs(PlannerVersion)
    ELSE IF RebalIndex \notin DOMAIN cfgIndexDefs.IndexDefs THEN ErrNoIndexDef
    ELSE PlannerGetPlanPIndexes(PlannerVersion)

\* assignPartition for a step of a partition, up to its read of the plan
AssignPartition(partition, step) ==
    LET errCurr == AssignPartitionCurrStates(partition, step)
        err == IF errCurr # "" THEN errCurr ELSE AssignPartitionGets
    IN  /\ rCurr' = IF errCurr # "" THEN rCurr
                    ELSE MapPut(rCurr, <<partition, step.node>>,
                                [state |-> step.state, op |-> step.op])
        /\ IF err # ""
           THEN /\ rErrors' = Append(rErrors, err)
                /\ rpc' = "done"
                /\ UNCHANGED rStep
           ELSE /\ rStep' = [partition |-> partition, node |-> step.node,
                             state |-> step.state, op |-> step.op,
                             planPIndexes |-> PlanPIndexesPrev(PlannerVersion),
                             cas |-> cfgCas]
                /\ rpc' = "write"
                /\ UNCHANGED rErrors

\* The orchestrator yields the next step of a partition, and
\* assignPartition takes it up to its read of the plan.  After an error the
\* orchestrator makes no further step.
AssignPartitionRead ==
    /\ rpc = "moves"
    /\ \E partition \in DOMAIN rMoves :
          /\ rMoves[partition] # <<>>
          /\ rMoves' = [rMoves EXCEPT ![partition] = Tail(@)]
          /\ AssignPartition(partition, Head(rMoves[partition]))
    /\ UNCHANGED <<rBeg, rEnd, cfgVars, planVars>>

\* A variant of the delete that empties the map
DelAll(nodes, node) == NoPlanPIndexes

\* updatePlanPIndexes: delete(planPIndex.Nodes, node)
Del(nodes, node) == [k \in (DOMAIN nodes) \ {node} |-> nodes[k]]

\* updatePlanPIndexes: the plan and the error it returns; uuid is the new
\* UUID of the PlanPIndex, and the one of the collection is made of it.  The
\* indexDefs of the rebalancer model have no NodePlanParams.
updatePlanPIndexes(planPIndexes, partition, node, state, op, uuid) ==
    LET known == partition \in DOMAIN planPIndexes.PlanPIndexes
        planPIndex ==
            IF known THEN planPIndexes.PlanPIndexes[partition]
            ELSE [rEnd.PlanPIndexes[partition] EXCEPT !.Nodes = NoPlanPIndexes]
        priority == IF state = "replica" THEN Cardinality(DOMAIN planPIndex.Nodes) ELSE 0
        planPIndexNode == [CanRead |-> TRUE, CanWrite |-> TRUE, Priority |-> priority]
        with(nodes) ==
            MapPut([planPIndexes EXCEPT !.nil = FALSE,
                       !.PlanPIndexes = MapPut(@, partition,
                           [planPIndex EXCEPT !.UUID = uuid, !.Nodes = nodes])],
                   "UUID", [uuid EXCEPT !.of = <<>>])
    IN  IF ~known /\ partition \notin DOMAIN rEnd.PlanPIndexes
        THEN [err |-> ErrNoPlanPIndex, planPIndexes |-> planPIndexes]
        ELSE IF op = "add"
        THEN IF node \in DOMAIN planPIndex.Nodes
             THEN [err |-> ErrAlreadyExists, planPIndexes |-> planPIndexes]
             ELSE [err |-> "",
                   planPIndexes |-> with(MapPut(planPIndex.Nodes, node, planPIndexNode))]
        ELSE IF node \notin DOMAIN planPIndex.Nodes
        THEN [err |-> ErrMissing, planPIndexes |-> planPIndexes]
        ELSE IF op = "del"
        THEN [err |-> "", planPIndexes |-> with(Del(planPIndex.Nodes, node))]
        ELSE [err |-> "",
              planPIndexes |-> with(MapPut(planPIndex.Nodes, node, planPIndexNode))]

\* assignPartition, from updatePlanPIndexes to its return
AssignPartitionWrite ==
    /\ rpc = "write"
    /\ LET u == updatePlanPIndexes(rStep.planPIndexes, rStep.partition, rStep.node,
                                   rStep.state, rStep.op,
                                   NewUUID([by |-> "mcp", cas |-> rStep.cas],
                                           rStep.partition))
           err == IF u.err # "" THEN u.err
                  ELSE IF CasMatches(rStep.cas) THEN "" ELSE ErrUpdatePlan
       IN  IF err # ""
           THEN /\ rErrors' = Append(rErrors, err)
                /\ rpc' = "done"
                /\ UNCHANGED <<cfgPlan, cfgCas, plQuiet>>
           ELSE /\ cfgPlan' = u.planPIndexes
                /\ cfgCas' = cfgCas + 1
                /\ plQuiet' = ConfigChanged
                /\ rpc' = IF NoMovesLeft(rMoves) THEN "done" ELSE "moves"
                /\ UNCHANGED rErrors
    /\ rStep' = NoStep
    /\ UNCHANGED <<rBeg, rEnd, rMoves, rCurr>>
    /\ UNCHANGED <<cfgVersion, cfgIndexDefs, cfgNodeDefs, srcUp, adminOps>>
    /\ UNCHANGED <<plpc, plRead, plPlan, plResult>>

\* The NodeDefs of the nodes of S, without tags
PlainNodeDefs(S) ==
    [nil |-> FALSE, ImplVersion |-> PlannerVersion,
     NodeDefs |-> [n \in S |-> [UUID |-> n, ImplVersion |-> PlannerVersion,
                                TagsNil |-> TRUE, Tags |-> <<>>]]]

\* The plan a planner has stored for indexDefs on the nodes of S
FirstPlan(indexDefs, S) ==
    CalcPlan(indexDefs, PlainNodeDefs(S), NewPlanPIndexes(PlannerVersion),
             PlannerVersion, TRUE, <<RebalIndex>>, NodeOrder, [by |-> "n1", cas |-> 0])

\* The index of the model, planned once for the nodes there were; the
\* wanted nodes have changed since, and the rebalancer is started
InitRebal ==
    /\ cfgVersion = PlannerVersion
    /\ \E d \in IndexDefChoices(RebalIndex), S \in (SUBSET Nodes) \ {{}}, T \in SUBSET Nodes :
          /\ d.type = "vlite" /\ ~d.frozen
          /\ cfgIndexDefs = [nil |-> FALSE, ImplVersion |-> PlannerVersion,
                             IndexDefs |-> [x \in {RebalIndex} |-> d]]
          /\ cfgNodeDefs = PlainNodeDefs(T)
          /\ cfgPlan = FirstPlan(cfgIndexDefs, S)
    /\ cfgCas = 1
    /\ srcUp = TRUE
    /\ adminOps = 0
    /\ PlannersIdle
    /\ rpc = "idle" /\ rBeg = <<>> /\ rEnd = <<>> /\ rMoves = <<>>
    /\ rCurr = <<>> /\ rErrors = <<>> /\ rStep = NoStep
    /\ AliasIdle /\ LoopIdle
    /\ VLiteIdle /\ MiscIdle /\ GroupIdle /\ SplitIdle

NextRebal ==
    \/ /\ \/ RunRebalancer
          \/ AssignPartitionRead
          \/ AssignPartitionWrite
       /\ UNCHANGED <<vliteVars, miscVars, groupVars, splitVars, aliasVars, loopVars>>
    \/ /\ \/ \E n \in Nodes : \E d \in NodeDefChoices(n) : AdminSetNodeDef(n, d)
          \/ \E n \in Nodes : AdminRemoveNodeDef(n)
       /\ UNCHANGED <<vliteVars, miscVars, groupVars, splitVars, aliasVars, rebalVars, loopVars>>

SpecRebal == InitRebal /\ [][NextRebal]_vars


\* ---------------------------------------------------------------------
\* Alias resolution (bleveIndexAliasForUserIndexAlias)
\* ---------------------------------------------------------------------

\* The ceiling on the engine targets of one resolution; 50000 in the source
maxAliasTargets == 1

\* The depth of fillAlias calls at which the stack of the goroutine is
\* used up: beyond the depth at which a cycle that adds an engine target
\* in each of its rounds has run into the ceiling
MaxAliasDepth == 2 * (maxAliasTargets + 2) + 1

\* The errors of the resolution
ErrNoAliasDef == "alias: could not get aliasDef"
ErrNotAliasType == "alias: not alias type"
ErrAliasUUID == "alias: mismatched aliasUUID"
ErrParseParams == "alias: could not parse aliasDef.Params"
ErrTooManyTargets == "alias: too many alias targets, perhaps there's a cycle"
ErrNoTarget == "alias: the alias depends upon a target index that does not exist"
ErrTargetUUID == "alias: mismatched targetSpec.UUID"
ErrUnsupportedTarget == "alias: unsupported target type"
ErrSubAlias == "bleveIndexAlias: error"

\* The end of a goroutine whose stack has outgrown its limit: the runtime
\* ends the process, and the call returns nothing
StackOverflow == "fatal error: stack overflow"

AliasErrors == {ErrNoAliasDef, ErrNotAliasType, ErrAliasUUID, ErrParseParams,
                ErrTooManyTargets, ErrNoTarget, ErrTargetUUID, ErrUnsupportedTarget, ErrSubAlias}

\* The names of the model: two aliases, two indexes of an engine the alias
\* takes, one of an engine it does not take, and a name without indexDef
AliasNames == {"A", "B"}
EngineNames == {"x", "y"}
TargetNames == AliasNames \cup EngineNames \cup {"v", "m"}
DefinedUUID == "u"

\* The most targets the params of an alias of the model list: the engine
\* indexes and one more
MaxTargets == Cardinality(EngineNames) + 1

\* strings.HasPrefix(targetDef.Type, "bleve")
IsEngineType(type) == type \in {"bleve", "bleve-mem"}

\* The indexDefs of the model, but for the params of the aliases
TypeOf(name) ==
    IF name \in AliasNames THEN "alias"
    ELSE IF name = "x" THEN "bleve"
    ELSE IF name = "y" THEN "bleve-mem"
    ELSE "vlite"

\* params.Targets of an alias: by target name, the IndexUUID expected, at
\* most one of them not empty
TargetChoices(max) ==
    UNION {{[n \in S |-> IF n = marked THEN uuid ELSE ""] :
                marked \in S \cup {"none"}, uuid \in {DefinedUUID, "w"}} :
           S \in {S \in SUBSET TargetNames : Cardinality(S) <= max}}

\* fillAlias, from its start to the loop over the targets: its error, ""
\* for none
FillAliasEntry(aliasName, aliasUUID) ==
    IF aliasName \notin DOMAIN aDefs THEN ErrNoAliasDef
    ELSE IF aDefs[aliasName].Type # "alias" THEN ErrNotAliasType
    ELSE IF aliasUUID # "" /\ aliasUUID # aDefs[aliasName].UUID THEN ErrAliasUUID
    ELSE IF ~aDefs[aliasName].ParamsOk THEN ErrParseParams
    ELSE ""

\* The fillAlias calls with a target left, those that have gone through
\* theirs having returned
RECURSIVE Unwind(_)
Unwind(stack) ==
    IF stack = <<>> THEN stack
    ELSE IF stack[Len(stack)].left = {} THEN Unwind(SubSeq(stack, 1, Len(stack) - 1))
    ELSE stack

\* A fillAlias call is entered: with the calls in progress, it overflows
\* the stack, ends in an error, or starts on its targets
Enter(stack, aliasName, aliasUUID) ==
    IF Len(stack) >= MaxAliasDepth
    THEN /\ aResult' = StackOverflow
         /\ aStack' = <<>>
    ELSE IF FillAliasEntry(aliasName, aliasUUID) # ""
    THEN /\ aResult' = FillAliasEntry(aliasName, aliasUUID)
         /\ aStack' = <<>>
    ELSE /\ aStack' = Unwind(Append(stack, [aliasName |-> aliasName,
                                            left |-> DOMAIN aDefs[aliasName].Targets]))
         /\ aResult' = IF aStack' = <<>> THEN "ok" ELSE "running"

\* bleveIndexAliasForUserIndexAlias up to the loop of the first fillAlias
AliasStart ==
    /\ aResult = "idle"
    /\ Enter(<<>>, aQuery.indexName, aQuery.indexUUID)
    /\ UNCHANGED <<aDefs, aQuery, aNum, aAdded, aTarget>>

\* A loop that does not compare the UUID expected of a target
TargetErrorWithoutUUID(aliasName, targetName) ==
    IF aNum > maxAliasTargets THEN ErrTooManyTargets
    ELSE IF targetName \notin DOMAIN aDefs THEN ErrNoTarget
    ELSE ""

\* The error fillAlias returns for a target before it looks at its type,
\* "" for none
TargetError(aliasName, targetName) ==
    IF aNum > maxAliasTargets THEN ErrTooManyTargets
    ELSE IF targetName \notin DOMAIN aDefs THEN ErrNoTarget
    ELSE IF /\ aDefs[aliasName].Targets[targetName] # ""
            /\ aDefs[aliasName].Targets[targetName] # aDefs[targetName].UUID
    THEN ErrTargetUUID
    ELSE ""

\* The calls in progress, the target taken off those the innermost has left
Taken(targetName) ==
    [aStack EXCEPT ![Len(aStack)].left = @ \ {targetName}]

\* The resolution returns err, and no alias with it
Fails(err) ==
    /\ aResult' = err
    /\ aStack' = <<>>
    /\ UNCHANGED <<aNum, aAdded>>

\* One round of the loop of the innermost fillAlias, for the target the
\* iteration of params.Targets gives; subOk is whether bleveIndexAlias can
\* build the alias of an engine target
FillAliasTarget(targetName, subOk) ==
    /\ aResult = "running"
    /\ targetName \in aStack[Len(aStack)].left
    /\ aTarget' = [aliasName |-> aStack[Len(aStack)].aliasName, targetName |-> targetName]
    /\ IF TargetError(aStack[Len(aStack)].aliasName, targetName) # ""
       THEN Fails(TargetError(aStack[Len(aStack)].aliasName, targetName))
       ELSE IF aDefs[targetName].Type = "alias"
       THEN /\ Enter(Taken(targetName), targetName,
                     aDefs[aStack[Len(aStack)].aliasName].Targets[targetName])
            /\ UNCHANGED <<aNum, aAdded>>
       ELSE IF IsEngineType(aDefs[targetName].Type)
       THEN IF subOk
            THEN /\ aAdded' = Append(aAdded, targetName)
                 /\ aNum' = aNum + 1
                 /\ aStack' = Unwind(Taken(targetName))
                 /\ aResult' = IF aStack' = <<>> THEN "ok" ELSE "running"
            ELSE Fails(ErrSubAlias)
       ELSE Fails(ErrUnsupportedTarget)
    /\ UNCHANGED <<aDefs, aQuery>>

\* The queries of the model
AliasQueries ==
    {[indexName |-> "A", indexUUID |-> u] : u \in {"", DefinedUUID, "w"}}
    \cup {[indexName |-> n, indexUUID |-> ""] : n \in {"x", "m"}}

\* The indexDefs are read, and a query names an index and perhaps its UUID;
\* alias B has at most one target, and expects no UUID of it, or has
\* params that do not parse
InitAlias ==
    /\ \E ta \in TargetChoices(MaxTargets), tb \in TargetChoices(1), okb \in BOOLEAN :
          /\ \A n \in DOMAIN tb : tb[n] = ""
          /\ ~okb => DOMAIN tb = {}
          /\ aDefs = [n \in TargetNames \ {"m"} |->
                      [Type |-> TypeOf(n), UUID |-> DefinedUUID,
                       ParamsOk |-> IF n = "B" THEN okb ELSE TRUE,
                       Targets |-> IF n = "A" THEN ta ELSE IF n = "B" THEN tb
                                   ELSE <<>>]]
    /\ aQuery \in AliasQueries
    /\ aStack = <<>> /\ aNum = 0 /\ aAdded = <<>>
    /\ aResult = "idle" /\ aTarget = <<>>
    /\ CfgIdle /\ PlanIdle /\ RebalIdle /\ LoopIdle
    /\ VLiteIdle /\ MiscIdle /\ GroupIdle /\ SplitIdle

NextAlias ==
    /\ \/ AliasStart
       \/ \E t \in TargetNames, subOk \in BOOLEAN : FillAliasTarget(t, subOk)
    /\ UNCHANGED <<vliteVars, miscVars, groupVars, splitVars, cfgVars, planVars, rebalVars, loopVars>>

SpecAlias == InitAlias /\ [][NextAlias]_vars


-----------------------------------------------------------------------------
(* Properties of the planner. *)

\* The run of PlannerOnce that planner p is in has its plan from CalcPlan
Planned(p) == plpc[p] = "commit"

\* The names of the PlanPIndexes of a plan that are of the index indexDef
PlanPIndexesOf(plan, indexDef) ==
    {n \in DOMAIN plan.PlanPIndexes :
        /\ plan.PlanPIndexes[n].IndexName = indexDef.name
        /\ plan.PlanPIndexes[n].IndexUUID = indexDef.uuid}

\* The frozen indexDefs a run has read
FrozenDefs(p) ==
    {plRead[p].indexDefs.IndexDefs[k] : k \in
        {k \in DOMAIN plRead[p].indexDefs.IndexDefs :
            plRead[p].indexDefs.IndexDefs[k].frozen}}

\* C11: for an IndexDef with planFrozen set, the plan CalcPlan returns holds
\* of that index exactly the PlanPIndexes of the previous plan whose
\* IndexName and IndexUUID are those of the IndexDef, each as it was (name,
\* UUID, source partitions, nodes), and none from a new split, whatever
\* maxPartitionsPerPIndex, the replica count and the nodes now are.
C11_FrozenCopiesPreviousPlan ==
    \A p \in Planners :
        Planned(p) =>
            \A d \in FrozenDefs(p) :
                /\ PlanPIndexesOf(plPlan[p], d) = PlanPIndexesOf(plRead[p].prev, d)
                /\ \A n \in PlanPIndexesOf(plRead[p].prev, d) :
                      plPlan[p].PlanPIndexes[n] = plRead[p].prev.PlanPIndexes[n]

\* A frozen index whose previous PlanPIndexes are not the ones a split would
\* make now, or are on other nodes than the wanted ones, went through CalcPlan
C11_Witness ==
    \E p \in Planners :
        /\ Planned(p)
        /\ \E d \in FrozenDefs(p) :
              /\ PlanPIndexesOf(plRead[p].prev, d) # {}
              /\ PlanPIndexesOf(plPlan[p], d) = PlanPIndexesOf(plRead[p].prev, d)
              /\ \/ DOMAIN PlannerChunks[<<d.name, d.uuid, d.max>>]
                        # PlanPIndexesOf(plRead[p].prev, d)
                 \/ \E n \in PlanPIndexesOf(plRead[p].prev, d) :
                       DOMAIN plRead[p].prev.PlanPIndexes[n].Nodes
                          # DOMAIN plRead[p].nodeDefs.NodeDefs


\* The indexDefs a run has read
ReadDefs(p) ==
    {plRead[p].indexDefs.IndexDefs[k] : k \in DOMAIN plRead[p].indexDefs.IndexDefs}

\* IndexDefs without the definition of the index called name
WithoutDef(indexDefs, name) ==
    [indexDefs EXCEPT !.IndexDefs = [k \in (DOMAIN @) \ {name} |-> @[k]]]

\* The plans CalcPlan may give the run of p when the index called name is
\* not defined
PlansWithout(p, name) ==
    {CalcPlan(WithoutDef(plRead[p].indexDefs, name), plRead[p].nodeDefs,
              plRead[p].prev, PlannerVersion, plRead[p].srcOk, o, t,
              [by |-> p, cas |-> plRead[p].cas]) :
        o \in MapOrders(WithoutDef(plRead[p].indexDefs, name).IndexDefs),
        t \in TieOrders}

\* CalcPlan has gone past the indexDef d: it has returned a plan and no
\* error, the plan has no PlanPIndex of d, and it is a plan CalcPlan gives
\* without d
SkippedSilently(p, d) ==
    /\ ~plPlan[p].nil
    /\ PlanPIndexesOf(plPlan[p], d) = {}
    /\ plPlan[p] \in PlansWithout(p, d.name)

\* C12 as claimed: an IndexDef whose type is unknown or has no engine (no
\* New or no Open in the registry, as the alias) is skipped: CalcPlan
\* returns no error and no PlanPIndex of that index, and plans the other
\* IndexDefs as it would without it.
C12_NoEngineIsSkipped ==
    \A p \in Planners :
        Planned(p) =>
            \A d \in ReadDefs(p) : NoEngine(d.type) => SkippedSilently(p, d)

\* C12, amended: the same for an IndexDef that is not frozen; the
\* PlanPIndexes of a frozen one are copied before its type is looked at.
C12_UnfrozenNoEngineIsSkipped ==
    \A p \in Planners :
        Planned(p) =>
            \A d \in ReadDefs(p) :
                (NoEngine(d.type) /\ ~d.frozen) => SkippedSilently(p, d)

\* An index without engine was skipped next to one that was planned, and
\* the previous plan had PlanPIndexes of the skipped index
C12_Witness ==
    \E p \in Planners :
        /\ Planned(p)
        /\ \E d, e \in ReadDefs(p) :
              /\ NoEngine(d.type) /\ ~d.frozen
              /\ SkippedSilently(p, d)
              /\ PlanPIndexesOf(plPlan[p], e) # {}
        /\ \E d \in ReadDefs(p) :
              /\ NoEngine(d.type) /\ ~d.frozen
              /\ PlanPIndexesOf(plRead[p].prev, d) # {}


-----------------------------------------------------------------------------
(* The version gate of PlannerOnce: one run of the planner of n1 on a
   config store other nodes, of other versions, have written. *)

\* The NodeDef this node may have registered
GateNodeDefs ==
    [UUID : {"n1"}, ImplVersion : {V10, V11}, TagsNil : {FALSE},
     Tags : {<<>>, <<"planner">>, <<"pindex">>, <<"planner", "pindex">>}]
    \cup [UUID : {"n1"}, ImplVersion : {V10, V11}, TagsNil : {TRUE}, Tags : {<<>>}]

\* The index of the gate specification
GateIndexDefs ==
    [x \in {<<"i">>} |-> [name |-> <<"i">>, uuid |-> <<"a">>, type |-> "vlite",
                          frozen |-> FALSE, max |-> 2, replicas |-> 0]]

\* The plan the planner of n2, of the given version, has stored for it
StoredPlan(version) ==
    CalcPlan([nil |-> FALSE, ImplVersion |-> version, IndexDefs |-> GateIndexDefs],
             [nil |-> FALSE, ImplVersion |-> version,
              NodeDefs |-> [n \in {"n2"} |->
                  [UUID |-> n, ImplVersion |-> version, TagsNil |-> TRUE, Tags |-> <<>>]]],
             NewPlanPIndexes(version), version, TRUE, <<<<"i">>>>, NodeOrder,
             [by |-> "n2", cas |-> 0])

InitGate ==
    /\ cfgVersion \in ImplVersions
    /\ \/ cfgIndexDefs = [nil |-> TRUE]
       \/ \E v \in ImplVersions :
             cfgIndexDefs = [nil |-> FALSE, ImplVersion |-> v, IndexDefs |-> GateIndexDefs]
    /\ \/ cfgNodeDefs = [nil |-> TRUE]
       \/ \E v \in ImplVersions :
             \/ cfgNodeDefs = [nil |-> FALSE, ImplVersion |-> v, NodeDefs |-> NoPlanPIndexes]
             \/ \E d \in GateNodeDefs :
                   cfgNodeDefs = [nil |-> FALSE, ImplVersion |-> v,
                                  NodeDefs |-> [n \in {"n1"} |-> d]]
    /\ \/ cfgPlan = NoPlan /\ cfgCas = 0
       \/ \E v \in ImplVersions : cfgPlan = StoredPlan(v) /\ cfgCas = 1
    /\ srcUp = TRUE
    /\ adminOps = 0
    /\ PlannersIdle
    /\ AliasIdle /\ RebalIdle /\ LoopIdle
    /\ VLiteIdle /\ MiscIdle /\ GroupIdle /\ SplitIdle

NextGate ==
    /\ \/ PlannerOnceRead("n1")
       \/ PlannerOnceCommit("n1")
    /\ UNCHANGED <<vliteVars, miscVars, groupVars, splitVars, aliasVars, rebalVars, loopVars>>

SpecGate == InitGate /\ [][NextGate]_vars

\* The numbers of a dotted version
VersionNumbers(v) == [i \in DOMAIN Split(v, ".") |-> Atoi(Split(v, ".")[i]).v]

\* Version y is greater than version x: at the first part they differ in,
\* y has the greater number, or y has a part and x has none
Newer(y, x) ==
    LET ya == VersionNumbers(y)
        xa == VersionNumbers(x)
    IN  \E i \in DOMAIN ya :
           /\ \A j \in 1..(i - 1) : j \in DOMAIN xa /\ ya[j] = xa[j]
           /\ i \notin DOMAIN xa \/ ya[i] > xa[i]

\* A stored collection has a greater ImplVersion than the planner
StoredIsNewer ==
    \/ ~cfgIndexDefs.nil /\ Newer(cfgIndexDefs.ImplVersion, PlannerVersion)
    \/ ~cfgNodeDefs.nil /\ Newer(cfgNodeDefs.ImplVersion, PlannerVersion)
    \/ ~cfgPlan.nil /\ Newer(cfgPlan.ImplVersion, PlannerVersion)

\* The NodeDef of the node of planner p is without the tag "planner"
LacksPlannerTag(p) ==
    /\ ~cfgNodeDefs.nil
    /\ p \in DOMAIN cfgNodeDefs.NodeDefs
    /\ ~HasTag(cfgNodeDefs.NodeDefs[p], "planner")

\* The NodeDef of the node of planner p has tags, "planner" not among them
TaggedNotPlanner(p) ==
    /\ LacksPlannerTag(p)
    /\ ~cfgNodeDefs.NodeDefs[p].TagsNil
    /\ Len(cfgNodeDefs.NodeDefs[p].Tags) > 0

\* The step is a PlannerOnce of p that ends with an error, before CalcPlan,
\* and leaves the config store as it is
Aborts(p) ==
    /\ plResult'.by = p /\ plResult'.err # "" /\ ~plResult'.changed
    /\ plpc'[p] = "idle"
    /\ cfgVars' = cfgVars

-----------------------------------------------------------------------------
(* Planners of two nodes on one config store. *)

NextRace ==
    /\ \/ \E p \in Planners : PlannerOnceRead(p)
       \/ \E p \in Planners : PlannerOnceCommit(p)
       \/ \E d \in IndexDefChoices(<<"i">>) : AdminSetIndexDef(<<"i">>, d)
    /\ UNCHANGED <<vliteVars, miscVars, groupVars, splitVars, aliasVars, rebalVars, loopVars>>

\* Both nodes are wanted, the index "i" is defined, nothing is planned yet
InitRace ==
    /\ InitPlan
    /\ DOMAIN cfgIndexDefs.IndexDefs = {<<"i">>}
    /\ cfgIndexDefs.IndexDefs[<<"i">>].max = 2
    /\ DOMAIN cfgNodeDefs.NodeDefs = Nodes

SpecRace == InitRace /\ [][NextRace]_vars

\* The step is a write of the plan by the run of p
Writes(p) == PlannerOnceCommit(p) /\ cfgCas' # cfgCas

\* The run of p has a plan other than the one it read, and the CAS it read
\* is no longer the one of the key
LostRace(p) ==
    /\ Planned(p)
    /\ ~SamePlanPIndexes(plPlan[p], plRead[p].prev)
    /\ plRead[p].cas # cfgCas

BackToBack(p) == p \in plQuiet.b2b /\ p \notin plQuiet.dirty

\* C15: a PlannerOnce that runs right after another, with the IndexDefs and
\* the NodeDefs unchanged, finds no change: it returns changed = false,
\* writes nothing, and the stored PlanPIndexes, the UUID of every PlanPIndex
\* included, stay as the first run left them.
C15_SecondRunChangesNothing ==
    [][\A p \in Planners :
          /\ (PlannerOnceCommit(p) /\ BackToBack(p)) =>
                /\ plResult' = [by |-> p, changed |-> FALSE, err |-> ""]
                /\ cfgPlan' = cfgPlan /\ cfgCas' = cfgCas
          /\ (PlannerOnceRead(p) /\ plQuiet.clean /\ Idle(p)' ) =>
                /\ ~plResult'.changed
                /\ cfgPlan' = cfgPlan /\ cfgCas' = cfgCas]_vars

\* The second of two runs has ended without a change, on a plan the first
\* had written after the configuration had changed
C15_Witness ==
    /\ plResult = [by |-> "n1", changed |-> FALSE, err |-> ""]
    /\ plQuiet.clean
    /\ cfgCas = 2
    /\ adminOps = 1
    /\ \E n \in DOMAIN cfgPlan.PlanPIndexes : cfgPlan.PlanPIndexes[n].UUID.cas = 1


\* A rebalance of an index of one PlanPIndex without replicas, while the
\* planners of both nodes run and nodes register
InitTie ==
    /\ InitRebal
    /\ cfgIndexDefs.IndexDefs[RebalIndex].max = 2
    /\ cfgIndexDefs.IndexDefs[RebalIndex].replicas = 0

NextTie ==
    \/ /\ \/ RunRebalancer
          \/ AssignPartitionRead
          \/ AssignPartitionWrite
       /\ UNCHANGED <<vliteVars, miscVars, groupVars, splitVars, aliasVars, loopVars>>
    \/ /\ \/ \E p \in Planners : PlannerOnceRead(p)
          \/ \E p \in Planners : PlannerOnceCommit(p)
          \/ \E n \in Nodes : AdminSetNodeDef(n, PlainNodeDefs({n}).NodeDefs[n])
       /\ UNCHANGED <<vliteVars, miscVars, groupVars, splitVars, aliasVars, rebalVars, loopVars>>

SpecTie == InitTie /\ [][NextTie]_vars

\* Two planners have read the same IndexDefs, NodeDefs and previous plan
SameInputs(p, q) ==
    /\ plpc[p] = "commit" /\ plpc[q] = "commit"
    /\ plRead[p] = plRead[q]

AliasTargets(name) ==
    IF name \in DOMAIN aDefs /\ aDefs[name].Type = "alias"
    THEN {t \in DOMAIN aDefs[name].Targets : t \in DOMAIN aDefs /\ aDefs[t].Type = "alias"}
    ELSE {}

\* The aliases reached from those of S
RECURSIVE AliasesFrom(_)
AliasesFrom(S) ==
    LET T == S \cup UNION {AliasTargets(n) : n \in S}
    IN  IF T = S THEN S ELSE AliasesFrom(T)

\* The graph of aliases reached from the one queried has a cycle
Cyclic ==
    \E n \in AliasesFrom({aQuery.indexName}) : n \in AliasesFrom(AliasTargets(n))

\* C17: the resolution of an alias ends on every graph of aliases: when the
\* graph reached from the alias queried has a cycle, it returns an error,
\* that of too many targets if no other, after finitely many steps; it
\* neither returns an alias nor recurses until the stack is used up.
C17_CycleIsRefused ==
    Cyclic => aResult \in {"idle", "running"} \cup AliasErrors


\* C18: in every resolution, one that fails included, the engine targets
\* added to the alias are never more than maxAliasTargets.
C18_AtMostMaxAliasTargets == Len(aAdded) <= maxAliasTargets


\* The innermost fillAlias reaches the target in this step
Reaches(targetName) == \E subOk \in BOOLEAN : FillAliasTarget(targetName, subOk)

\* The alias whose targets the innermost fillAlias goes through
Innermost == aStack[Len(aStack)].aliasName

NotDefined(targetName) == targetName \notin DOMAIN aDefs

UUIDMismatched(targetName) ==
    /\ ~NotDefined(targetName)
    /\ aDefs[Innermost].Targets[targetName] \notin {"", aDefs[targetName].UUID}

Unsupported(targetName) ==
    /\ ~NotDefined(targetName) /\ ~UUIDMismatched(targetName)
    /\ aDefs[targetName].Type \notin {"alias", "bleve", "bleve-mem"}

\* C19: the resolution fails, and returns no alias, when the UUID expected
\* of the alias queried or of a target reached is given and is not the one
\* defined, when a target has no indexDef, and when the type of a target is
\* neither alias nor one of an engine; it fails when that target is
\* reached, and no later target is resolved.
C19_BadTargetFailsAtOnce ==
    [][/\ (AliasStart /\ aQuery.indexName \in DOMAIN aDefs
              /\ aDefs[aQuery.indexName].Type = "alias"
              /\ aQuery.indexUUID \notin {"", aDefs[aQuery.indexName].UUID})
          => aResult' = ErrAliasUUID /\ aAdded' = <<>>
       /\ \A t \in TargetNames :
            (Reaches(t) /\ (NotDefined(t) \/ UUIDMismatched(t) \/ Unsupported(t)))
            => /\ aResult' \in AliasErrors
               /\ aAdded' = aAdded
               /\ aNum <= maxAliasTargets =>
                    aResult' = IF NotDefined(t) THEN ErrNoTarget
                               ELSE IF UUIDMismatched(t) THEN ErrTargetUUID
                               ELSE ErrUnsupportedTarget
       /\ aResult \in AliasErrors => UNCHANGED aliasVars]_vars

\* A target was added to the alias, a later one had another UUID than the
\* one expected, and the resolution has failed on it with targets left
C19_Witness ==
    /\ aResult = ErrTargetUUID
    /\ aAdded # <<>>
    /\ aTarget.aliasName = "A"
    /\ Cardinality(DOMAIN aDefs["A"].Targets) = MaxTargets
    /\ aNum <= maxAliasTargets


\* The PlanPIndexes of the stored plan that have a node
Assigned(plan) ==
    IF plan.nil THEN {}
    ELSE {name \in DOMAIN plan.PlanPIndexes : DOMAIN plan.PlanPIndexes[name].Nodes # {}}

-----------------------------------------------------------------------------
(* The tags of a NodeDef, as the planner's role check and the layout of
   the nodes read them. *)

\* The NodeDef has no tags list: Tags is absent (nil) or empty
NoTagsList(nodeDef) == nodeDef.TagsNil \/ Len(nodeDef.Tags) = 0

\* The tags the NodeDef lists
TagsListed(nodeDef) == IF nodeDef.TagsNil THEN {} ELSE Range(nodeDef.Tags)

\* The node is among the nodes CalcNodesLayout takes from the NodeDefs as
\* able to hold pindexes: with no previous plan, these are nodeUUIDsAll
PIndexCapable(nodeDefs, uuid) ==
    uuid \in Range(CalcNodesLayout(nodeDefs, NewPlanPIndexes(PlannerVersion)).nodeUUIDsAll)

\* C21: a NodeDef without a tags list (absent or empty) has every tag on,
\* for the planner-role check of PlannerGetNodeDefs and for the pindex-capable
\* nodes of CalcNodesLayout alike; a NodeDef with a non-empty list has
\* exactly the tags listed.
C21_NoTagsListMeansAllTags ==
    ~cfgNodeDefs.nil =>
        \A uuid \in DOMAIN cfgNodeDefs.NodeDefs :
            LET nodeDef == cfgNodeDefs.NodeDefs[uuid]
            IN  IF NoTagsList(nodeDef)
                THEN IsPlanner(nodeDef) /\ PIndexCapable(cfgNodeDefs, uuid)
                ELSE /\ IsPlanner(nodeDef) <=> "planner" \in TagsListed(nodeDef)
                     /\ PIndexCapable(cfgNodeDefs, uuid) <=> "pindex" \in TagsListed(nodeDef)


-----------------------------------------------------------------------------
(* Manager.PlannerLoop of the node n1, the goroutine it starts for the
   events of the config store, and the callers of PlannerKick and
   PlannerNOOP. *)

WORK_KICK == "kick"
WORK_NOOP == "noop"
ErrUnknownOp == "planner: unknown op"

INDEX_DEFS_KEY == "indexDefs"
NODE_DEFS_WANTED_KEY == "nodeDefs-wanted"

\* The node whose manager is modelled (mgr.uuid)
LoopNode == "n1"

\* The goroutine of the subscription, and two other callers
Subscriber == "sub"
Callers == {Subscriber, "a", "b"}

\* What the other callers call: a kicks the planner as Manager.Start does,
\* b waits for the loop to come round with a NOOP
CallerOp == [a |-> WORK_KICK, b |-> WORK_NOOP]
CallerMsg == [a |-> "start", b |-> "probe"]

NoReqMade == [op |-> "", msg |-> ""]
NewResCh == [err |-> "", closes |-> 0]

\* syncWorkReq up to its send on the work channel: a request with a resCh
\* of its own is made and offered to the loop
SyncWorkReqSend(c, op, msg) ==
    /\ wReq' = [wReq EXCEPT ![c] = [op |-> op, msg |-> msg]]
    /\ wResCh' = [wResCh EXCEPT ![c] = NewResCh]
    /\ wRet' = [wRet EXCEPT ![c] = "none"]
    /\ wpc' = [wpc EXCEPT ![c] = "send"]

\* A caller that sends nothing, its work being none of this node's
SkipWorkReq(c) ==
    /\ wpc' = [wpc EXCEPT ![c] = "done"]
    /\ wRet' = [wRet EXCEPT ![c] = "none"]
    /\ wReq' = [wReq EXCEPT ![c] = NoReqMade]
    /\ UNCHANGED wResCh

\* PlannerKick, up to the send
PlannerKick(c, msg) ==
    IF mPlanner THEN SyncWorkReqSend(c, WORK_KICK, msg) ELSE SkipWorkReq(c)

\* PlannerNOOP, up to the send
PlannerNOOP(c, msg) ==
    IF mPlanner THEN SyncWorkReqSend(c, WORK_NOOP, msg) ELSE SkipWorkReq(c)

\* A goroutine calls PlannerKick or PlannerNOOP
CallerStart(c) ==
    /\ c # Subscriber
    /\ wpc[c] = "idle"
    /\ IF CallerOp[c] = WORK_KICK
       THEN PlannerKick(c, CallerMsg[c])
       ELSE PlannerNOOP(c, CallerMsg[c])
    /\ UNCHANGED <<mPlanner, lpc, lCur, lLog, lClosed, jKicks, ecQueue, ecSeen>>
    /\ UNCHANGED <<cfgVars, planVars>>

\* for e := range ec: the subscriber takes an event and kicks the planner
SubscriberEvent ==
    /\ wpc[Subscriber] \in {"idle", "done"}
    /\ ecQueue # <<>>
    /\ ecQueue' = Tail(ecQueue)
    /\ ecSeen' = ecSeen + 1
    /\ PlannerKick(Subscriber, <<"cfg changed, key: ", Head(ecQueue)>>)
    /\ UNCHANGED <<mPlanner, lpc, lCur, lLog, lClosed, jKicks>>
    /\ UNCHANGED <<cfgVars, planVars>>

\* syncWorkReq from the receive on resCh to its return
SyncWorkReqReturn(c) ==
    /\ wpc[c] = "wait"
    /\ wResCh[c].err # "" \/ wResCh[c].closes > 0
    /\ wRet' = [wRet EXCEPT ![c] = IF wResCh[c].err # "" THEN wResCh[c].err ELSE "nil"]
    /\ wpc' = [wpc EXCEPT ![c] = "done"]
    /\ UNCHANGED <<mPlanner, wReq, wResCh, lpc, lCur, lLog, lClosed, jKicks,
                   ecQueue, ecSeen>>
    /\ UNCHANGED <<cfgVars, planVars>>

\* A loop that goes on to the next request and leaves resCh open
ReplyWithoutClose(c, err) ==
    /\ lClosed' = Append(lClosed, c)
    /\ lpc' = "recv"
    /\ lCur' = "none"
    /\ UNCHANGED wResCh

\* The end of an iteration of the loop: err goes to resCh if there is one,
\* and resCh is closed
Reply(c, err) ==
    /\ wResCh' = [wResCh EXCEPT ![c] = [err |-> err, closes |-> @.closes + 1]]
    /\ lClosed' = Append(lClosed, c)
    /\ lpc' = "recv"
    /\ lCur' = "none"

\* A loop that kicks the janitor after every PlannerOnce
AfterPlannerOnceKicksAlways(c, changed, err) ==
    /\ jKicks' = Append(jKicks, Len(lLog))
    /\ Reply(c, "")

\* The iteration of a WORK_KICK from the return of PlannerOnce on: the
\* janitor is kicked when there was no error and the plan changed; the err
\* of PlannerOnce is a variable of the inner block, and the err that goes
\* to resCh stays nil
AfterPlannerOnce(c, changed, err) ==
    /\ jKicks' = IF err = "" /\ changed THEN Append(jKicks, Len(lLog)) ELSE jKicks
    /\ Reply(c, "")

\* for m := range mgr.plannerCh: a request is received; a WORK_NOOP and an
\* unknown op are handled at once, a WORK_KICK starts PlannerOnce
LoopReceive(c) ==
    /\ lpc = "recv"
    /\ wpc[c] = "send"
    /\ wpc' = [wpc EXCEPT ![c] = "wait"]
    /\ lLog' = Append(lLog, [by |-> c, op |-> wReq[c].op, msg |-> wReq[c].msg])
    /\ IF wReq[c].op = WORK_KICK
       THEN /\ lpc' = "once"
            /\ lCur' = c
            /\ UNCHANGED <<wResCh, lClosed>>
       ELSE IF wReq[c].op = WORK_NOOP
       THEN Reply(c, "")
       ELSE Reply(c, ErrUnknownOp)
    /\ UNCHANGED <<mPlanner, wReq, wRet, jKicks, ecQueue, ecSeen>>
    /\ UNCHANGED <<cfgVars, planVars>>

\* PlannerOnce of the loop, up to the return of CalcPlan, or to its return
\* when it ends before
LoopOnceRead ==
    /\ lpc = "once"
    /\ PlannerOnceRead(LoopNode)
    /\ IF plpc'[LoopNode] = "commit"
       THEN /\ lpc' = "commit"
            /\ UNCHANGED <<wResCh, lClosed, lCur, jKicks>>
       ELSE AfterPlannerOnce(lCur, plResult'.changed, plResult'.err)
    /\ UNCHANGED <<mPlanner, wpc, wReq, wRet, lLog, ecQueue, ecSeen>>

\* The rest of PlannerOnce and of the iteration
LoopOnceCommit ==
    /\ lpc = "commit"
    /\ PlannerOnceCommit(LoopNode)
    /\ AfterPlannerOnce(lCur, plResult'.changed, plResult'.err)
    /\ UNCHANGED <<mPlanner, wpc, wReq, wRet, lLog, ecQueue, ecSeen>>

\* The config store sends the event of a change on ec
CfgEvent(key) ==
    /\ ecQueue' = Append(ecQueue, key)
    /\ UNCHANGED <<mPlanner, wpc, wReq, wResCh, wRet, lpc, lCur, lLog, lClosed,
                   jKicks, ecSeen>>

\* The index definitions the administrator may change the index to
LoopIndexDefChoices ==
    {d \in IndexDefChoices(<<"i">>) :
        d.uuid = <<"a">> /\ d.type = "vlite" /\ ~d.frozen /\ d.replicas = 0}

\* The configuration changes once while the loop runs
FirstChange == adminOps = 0

\* The planner of another node runs, outside this node's loop
OtherPlanner ==
    /\ \E p \in Planners \ {LoopNode} : PlannerOnceRead(p) \/ PlannerOnceCommit(p)
    /\ UNCHANGED loopVars

InitLoop ==
    /\ cfgVersion = PlannerVersion
    /\ cfgIndexDefs = [nil |-> FALSE, ImplVersion |-> PlannerVersion,
                       IndexDefs |-> GateIndexDefs]
    /\ \E defs \in InitNodeDefs :
          cfgNodeDefs = [nil |-> FALSE, ImplVersion |-> PlannerVersion,
                         NodeDefs |-> defs]
    /\ cfgPlan = NoPlan
    /\ cfgCas = 0
    /\ srcUp = TRUE
    /\ adminOps = 0
    /\ PlannersIdle
    /\ mPlanner \in BOOLEAN
    /\ wpc = [c \in Callers |-> "idle"]
    /\ wReq = [c \in Callers |-> NoReqMade]
    /\ wResCh = [c \in Callers |-> NewResCh]
    /\ wRet = [c \in Callers |-> "none"]
    /\ lpc = "recv" /\ lCur = "none" /\ lLog = <<>> /\ lClosed = <<>>
    /\ jKicks = <<>> /\ ecQueue = <<>> /\ ecSeen = 0
    /\ AliasIdle /\ RebalIdle
    /\ VLiteIdle /\ MiscIdle /\ GroupIdle /\ SplitIdle

NextLoop ==
    /\ \/ \E c \in Callers : CallerStart(c)
       \/ SubscriberEvent
       \/ \E c \in Callers : SyncWorkReqReturn(c)
       \/ \E c \in Callers : LoopReceive(c)
       \/ LoopOnceRead
       \/ LoopOnceCommit
       \/ OtherPlanner
       \/ \E d \in LoopIndexDefChoices :
             FirstChange /\ AdminSetIndexDef(<<"i">>, d) /\ CfgEvent(INDEX_DEFS_KEY)
       \/ \E n \in Nodes :
             FirstChange /\ AdminRemoveNodeDef(n) /\ CfgEvent(NODE_DEFS_WANTED_KEY)
    /\ UNCHANGED <<vliteVars, miscVars, groupVars, splitVars, aliasVars, rebalVars>>

SpecLoop == InitLoop /\ [][NextLoop]_vars


\* The requests of caller c the loop has received
ReceivedFrom(c) == {i \in DOMAIN lLog : lLog[i].by = c}

\* How many requests caller c has made so far
RequestsMade(c) ==
    IF ~mPlanner THEN 0
    ELSE IF c = Subscriber THEN ecSeen
    ELSE IF wpc[c] = "idle" THEN 0 ELSE 1

\* The loop is between the receipt of a request and the close of its resCh
Handling == lpc \in {"once", "commit"}

\* C22: syncWorkReq delivers exactly one request with the op and msg given,
\* blocks until the loop closes the resCh of the request, and returns nil
\* when resCh is closed without an error; the loop closes the resCh of
\* every request it receives exactly once, after it has handled the request,
\* and handles the requests one at a time, in the order they arrive in.
C22_SyncWorkReqHandshake ==
    /\ \A c \in Callers :
          \* one request for each call, with the op and msg of the call
          /\ Cardinality(ReceivedFrom(c))
                = RequestsMade(c) - (IF wpc[c] = "send" THEN 1 ELSE 0)
          /\ (wpc[c] \in {"wait", "done"} /\ wReq[c] # NoReqMade) =>
                \E i \in ReceivedFrom(c) :
                    /\ lLog[i].op = wReq[c].op /\ lLog[i].msg = wReq[c].msg
                    /\ c # Subscriber =>
                          lLog[i].op = CallerOp[c] /\ lLog[i].msg = CallerMsg[c]
          \* the caller is back only once resCh is closed, and with nil
          /\ (wpc[c] = "done" /\ wReq[c] # NoReqMade) =>
                wResCh[c].closes = 1 /\ wResCh[c].err = "" /\ wRet[c] = "nil"
          /\ wpc[c] \in {"send", "wait"} => wRet[c] = "none"
          \* resCh is closed once, and not before the request is handled
          /\ wResCh[c].closes <= 1
          /\ (wpc[c] = "send" \/ (Handling /\ lCur = c)) => wResCh[c].closes = 0
          /\ (wpc[c] = "wait" /\ ~(Handling /\ lCur = c)) => wResCh[c].closes = 1
    \* one request at a time, closed in the order received
    /\ Len(lLog) = Len(lClosed) + (IF Handling THEN 1 ELSE 0)
    /\ \A i \in DOMAIN lClosed : lClosed[i] = lLog[i].by
    /\ Handling => lCur = lLog[Len(lLog)].by /\ lLog[Len(lLog)].op = WORK_KICK
    /\ ~Handling => lCur = "none"

\* The three callers have each had a request handled, the kick of the
\* subscriber after the NOOP and before the other kick, and are back with nil
C22_Witness ==
    /\ \A c \in Callers : wpc[c] = "done" /\ wRet[c] = "nil" /\ wResCh[c].closes = 1
    /\ lClosed = <<"b", Subscriber, "a">>
    /\ lLog[2] = [by |-> Subscriber, op |-> WORK_KICK,
                  msg |-> <<"cfg changed, key: ", INDEX_DEFS_KEY>>]
    /\ lLog[3] = [by |-> "a", op |-> WORK_KICK, msg |-> "start"]


\* The step calls JanitorKick
JanitorKicked == jKicks' # jKicks

\* The step is the end of a PlannerOnce of the loop that stored its plan
LoopWrote ==
    /\ LoopOnceCommit
    /\ cfgCas' = cfgCas + 1 /\ cfgPlan' = plPlan[LoopNode] /\ cfgPlan' # cfgPlan
    /\ plResult' = [by |-> LoopNode, changed |-> TRUE, err |-> ""]

\* The kicks of the subscriber: one request for every event it received,
\* each a WORK_KICK that names the key of the event
SubscriberKicks ==
    /\ wpc[Subscriber] \in {"send", "wait"} =>
          /\ wReq[Subscriber].op = WORK_KICK
          /\ wReq[Subscriber].msg[2] \in {INDEX_DEFS_KEY, NODE_DEFS_WANTED_KEY}
    /\ mPlanner =>
          /\ Cardinality(ReceivedFrom(Subscriber))
               + (IF wpc[Subscriber] = "send" THEN 1 ELSE 0) = ecSeen
          /\ \A i \in ReceivedFrom(Subscriber) : lLog[i].op = WORK_KICK
    /\ ecSeen + Len(ecQueue) = adminOps

\* C27: the loop kicks the janitor after a WORK_KICK exactly when the
\* PlannerOnce of that request stored a changed plan; no janitor kick follows
\* a run that found no change, a run that failed (a lost CAS included) or a
\* NOOP; every event of the config store on the keys of the index
\* definitions and of the wanted node definitions leads to one planner kick.
C27_JanitorKickedOnChangedPlan ==
    [][/\ JanitorKicked <=> LoopWrote
       /\ JanitorKicked =>
             /\ jKicks' = Append(jKicks, Len(lLog))
             /\ lLog[Len(lLog)].op = WORK_KICK
             /\ lLog[Len(lLog)].by = lCur
       /\ (LoopOnceCommit /\ PlanUnchanged(LoopNode)) =>
             /\ ~JanitorKicked
             /\ plResult' = [by |-> LoopNode, changed |-> FALSE, err |-> ""]
       /\ (LoopOnceCommit /\ LostRace(LoopNode)) =>
             ~JanitorKicked /\ plResult'.err = ErrCouldNotSave
       /\ (LoopOnceRead /\ plResult'.err # "" /\ plResult'.by = LoopNode
             /\ plpc'[LoopNode] = "idle") => ~JanitorKicked
       /\ (\E c \in Callers : LoopReceive(c)) => ~JanitorKicked
       /\ SubscriberKicks']_vars

\* Three requests were handled and the janitor was kicked for the last
\* alone: the first kick stored nothing, the planner of n2 having stored
\* the plan, a NOOP followed, and the kick for the event of the changed
\* index definition stored the new plan
C27_Witness ==
    /\ jKicks = <<3>>
    /\ Len(lClosed) = 3
    /\ lLog[1].by = "a" /\ lLog[2].op = WORK_NOOP
    /\ lLog[3] = [by |-> Subscriber, op |-> WORK_KICK,
                  msg |-> <<"cfg changed, key: ", INDEX_DEFS_KEY>>]
    /\ ecSeen = 1
    /\ plResult = [by |-> LoopNode, changed |-> TRUE, err |-> ""]
    /\ cfgCas = 2


-----------------------------------------------------------------------------
(* The queue of a partition under batch commits: three at_plus calls
   without a partitionUUID, one feed, and Close. *)

BatchWaiters == {"w1", "w2", "w3"}

InitBatch ==
    /\ store = "open"
    /\ memOnly \in BOOLEAN
    /\ partitions = {}
    /\ seqMax = [p \in Partitions |-> 0]
    /\ seqMaxBatch = [p \in Partitions |-> 0]
    /\ seqSnapEnd = [p \in Partitions |-> 0]
    /\ lastUUID = [p \in Partitions |-> ""]
    /\ cwrQueue = [p \in Partitions |-> <<>>]
    /\ seqColl = [p \in Partitions |-> 0]
    /\ opaqueColl = [p \in Partitions |-> <<>>]
    /\ drain = {}
    /\ restarted = FALSE
    /\ panicked = "none"
    /\ feed = [f \in Feeds |-> "idle"]
    /\ pc = [w \in BatchWaiters |-> "idle"]
    /\ req = [w \in BatchWaiters |-> NoReq]
    /\ doneCh = [w \in BatchWaiters |-> OpenCh]
    /\ cancelCh = [w \in BatchWaiters |-> FALSE]
    /\ seqStart = [w \in BatchWaiters |-> 0]
    /\ result = [w \in BatchWaiters |-> NoResult]
    /\ atClose = {}
    /\ entry = [w \in BatchWaiters |-> NoEntry]
    /\ MiscIdle
    /\ GroupIdle
    /\ SplitIdle
    /\ ClusterIdle

NextBatch ==
    /\ \/ \E f \in Feeds, p \in Partitions : Dest(f, p)
       \/ \E f \in Feeds, seq \in MutationSeqs : DataUpdate(f, seq)
       \/ \E f \in Feeds, seq \in MutationSeqs : DataDelete(f, seq)
       \/ \E f \in Feeds, snapEnd \in Seqs : SnapshotStart(f, snapEnd)
       \/ Close
       \/ \E p \in Partitions : DrainQueue(p)
       \/ \E w \in BatchWaiters, p \in Partitions, seq \in Seqs :
             ConsistencyWait(w, p, "", "at_plus", seq)
    /\ UNCHANGED <<groupVars, splitVars, clusterVars, miscVars>>

SpecBatch == InitBatch /\ [][NextBatch]_vars


\* The requests in the queue of handle p whose seq is above seq
QueuedAbove(p, seq) ==
    {cwrQueue[p][i].id : i \in {i \in DOMAIN cwrQueue[p] : cwrQueue[p][i].seq > seq}}

\* The step is a batch commit on handle p that completed: seqMaxBatch of
\* the handle has moved, and the process has not panicked in the commit
BatchCommitted(p) == seqMaxBatch'[p] # seqMaxBatch[p] /\ panicked' = "none"

\* No request in a queue is at or below seqMaxBatch of its handle
QueuedAreAhead ==
    panicked = "none" =>
        \A p \in Partitions : Queued(cwrQueue[p]) = QueuedAbove(p, seqMaxBatch[p])

\* What a commit does to the queue: the requests at or below the new
\* seqMaxBatch are out of the queue and their channels closed, the others
\* are in the queue
CommitPops(p) ==
    /\ Queued(cwrQueue'[p]) = QueuedAbove(p, seqMaxBatch'[p])
    /\ \A w \in Queued(cwrQueue[p]) \ Queued(cwrQueue'[p]) :
          doneCh'[w].closed /\ doneCh'[w].buf = "none"

Mutation(f, seq) == DataUpdate(f, seq) \/ DataDelete(f, seq)

StringsIntersectStringsAll(a, b) == SelectSeq(a, LAMBDA s : s \in Range(b))

\* StringsIntersectStrings: the strings of a that b has, each once, in the
\* order of a
StringsIntersectStrings(a, b) == Dedupe(SelectSeq(a, LAMBDA s : s \in Range(b)))

\* StringsRemoveStrings: stringArr without the strings of removeArr, in the
\* order of stringArr
StringsRemoveStrings(stringArr, removeArr) ==
    SelectSeq(stringArr, LAMBDA s : s \notin Range(removeArr))

\* The order of sort.Strings on the UUIDs of the nodes
StringLess(a, b) == PosIn(NodeOrder, a) < PosIn(NodeOrder, b)

\* sort.Strings
RECURSIVE SortStrings(_)
SortStrings(s) ==
    IF Len(s) = 0 THEN <<>>
    ELSE LET rest == SortStrings(Tail(s))
         IN  SelectSeq(rest, LAMBDA x : StringLess(x, Head(s)))
                \o <<Head(s)>>
                \o SelectSeq(rest, LAMBDA x : ~StringLess(x, Head(s)))

\* CalcNodesLayout from the point where nodeUUIDs and nodeUUIDsPrev have
\* been appended to
NodesLayout(nodeUUIDs, nodeUUIDsPrevRaw) ==
    LET nodeUUIDsPrev == StringsIntersectStrings(nodeUUIDsPrevRaw, nodeUUIDsPrevRaw)
        appended == nodeUUIDs \o nodeUUIDsPrev
        nodeUUIDsAll == StringsIntersectStrings(appended, appended)
    IN  [nodeUUIDsAll |-> SortStrings(nodeUUIDsAll),
         nodeUUIDsToAdd |-> SortStrings(StringsRemoveStrings(nodeUUIDsAll, nodeUUIDsPrev)),
         nodeUUIDsToRemove |-> SortStrings(StringsRemoveStrings(nodeUUIDsAll, nodeUUIDs))]

\* The orders of the elements of a set
RECURSIVE Perms(_)
Perms(S) ==
    IF S = {} THEN {<<>>}
    ELSE UNION {{<<x>> \o p : p \in Perms(S \ {x})} : x \in S}

\* The nodeDefs that can support pindexes
PIndexNodeDefs(nodeDefs) ==
    {k \in DOMAIN nodeDefs.NodeDefs :
        nodeDefs.NodeDefs[k].TagsNil \/ HasTag(nodeDefs.NodeDefs[k], "pindex")}

\* CalcNodesLayout: what nodeUUIDs may be after the loop over the nodeDefs,
\* whose order is the one of the map iteration
NodeUUIDsAppended(nodeDefs) ==
    {[i \in DOMAIN o |-> nodeDefs.NodeDefs[o[i]].UUID] :
        o \in Perms(PIndexNodeDefs(nodeDefs))}

\* The nodes of the PlanPIndexes named by order from the i-th on, each map
\* of Nodes in any order
RECURSIVE NodesAppended(_, _, _)
NodesAppended(planPIndexes, order, i) ==
    IF i > Len(order) THEN {<<>>}
    ELSE {a \o b : a \in Perms(DOMAIN planPIndexes[order[i]].Nodes),
                   b \in NodesAppended(planPIndexes, order, i + 1)}

\* CalcNodesLayout: what nodeUUIDsPrev may be after the loops over the
\* previous plan
NodeUUIDsPrevAppended(planPIndexesPrev) ==
    IF planPIndexesPrev.nil THEN {<<>>}
    ELSE UNION {NodesAppended(planPIndexesPrev.PlanPIndexes, order, 1) :
                    order \in Perms(DOMAIN planPIndexesPrev.PlanPIndexes)}

\* A sequence of node UUIDs in ascending order, no UUID twice
SortedNoDup(s) == \A i, j \in DOMAIN s : i < j => StringLess(s[i], s[j])

\* The nodes named in a plan
PlanNodes(planPIndexes) ==
    IF planPIndexes.nil THEN {}
    ELSE UNION {DOMAIN planPIndexes.PlanPIndexes[n].Nodes :
                    n \in DOMAIN planPIndexes.PlanPIndexes}

\* The layout is the one of the sets nodes and prevNodes
LayoutOfSets(r, nodes, prevNodes) ==
    /\ Range(r.nodeUUIDsAll) = nodes \cup prevNodes
    /\ Range(r.nodeUUIDsToAdd) = Range(r.nodeUUIDsAll) \ prevNodes
    /\ Range(r.nodeUUIDsToRemove) = Range(r.nodeUUIDsAll) \ nodes
    /\ SortedNoDup(r.nodeUUIDsAll)
    /\ SortedNoDup(r.nodeUUIDsToAdd)
    /\ SortedNoDup(r.nodeUUIDsToRemove)
    /\ Range(r.nodeUUIDsToAdd) \cap Range(r.nodeUUIDsToRemove) = {}

\* C25: for the set nodes of the wanted nodes that can support pindexes and
\* the set prevNodes of the nodes named in the previous plan, CalcNodesLayout
\* returns nodesAll = nodes \cup prevNodes, nodesToAdd = nodesAll \ prevNodes
\* and nodesToRemove = nodesAll \ nodes, each without duplicates and sorted
\* ascending, whatever the order of the map iterations; nodesToAdd and
\* nodesToRemove are disjoint.
C25_NodesLayoutIsTheSets ==
    \A p \in Planners :
        plpc[p] = "commit" =>
            LET nodeDefs == plRead[p].nodeDefs
                prev == plRead[p].prev
                nodes == {nodeDefs.NodeDefs[k].UUID : k \in PIndexNodeDefs(nodeDefs)}
            IN  \A a \in NodeUUIDsAppended(nodeDefs), b \in NodeUUIDsPrevAppended(prev) :
                    /\ LayoutOfSets(NodesLayout(a, b), nodes, PlanNodes(prev))
                    /\ NodesLayout(a, b) = CalcNodesLayout(nodeDefs, prev)

\* The planner of n1 has calculated a plan with a node to add and a node
\* to remove: the previous plan names n1 only, more than once, and the
\* wanted nodes are n2 only
C25_Witness ==
    /\ plpc["n1"] = "commit"
    /\ CalcNodesLayout(plRead["n1"].nodeDefs, plRead["n1"].prev) =
          [nodeUUIDsAll |-> <<"n1", "n2">>, nodeUUIDsToAdd |-> <<"n2">>,
           nodeUUIDsToRemove |-> <<"n1">>]
    /\ Cardinality(DOMAIN plRead["n1"].prev.PlanPIndexes) > 1
    /\ \E a \in NodeUUIDsAppended(plRead["n1"].nodeDefs),
          b \in NodeUUIDsPrevAppended(plRead["n1"].prev) :
            a = <<"n2">> /\ Len(b) > 1


\* ---------------------------------------------------------------------
\* The planner with per-node overrides in the plan parameters
\* ---------------------------------------------------------------------

\* The PlanPIndex of index "i" for the source partition "6" when every
\* PlanPIndex takes one source partition
FirstPIndexName == PlanPIndexName([name |-> <<"i">>, uuid |-> <<"a">>], <<"6">>)

\* The NodePlanParams an administrator may give index "i": none, one for a
\* node and every PlanPIndex, and one more for a node and one PlanPIndex
NodePlanParamChoices ==
    {{},
     {[node |-> "n1", pindex |-> <<>>, CanRead |-> FALSE, CanWrite |-> TRUE]},
     {[node |-> "n2", pindex |-> <<>>, CanRead |-> TRUE, CanWrite |-> FALSE]},
     {[node |-> "n2", pindex |-> <<>>, CanRead |-> TRUE, CanWrite |-> FALSE],
      [node |-> "n1", pindex |-> FirstPIndexName, CanRead |-> FALSE, CanWrite |-> FALSE]}}

\* The definitions of index "i" with plan parameters
OverrideIndexDefChoices ==
    [name : {<<"i">>}, uuid : IndexUUIDs, type : {"vlite"}, frozen : {FALSE},
     max : {1, 2}, replicas : {0, 1}, nodePlanParams : NodePlanParamChoices]

\* A cluster with index "i" and one or two nodes registered, nothing
\* planned yet
InitNodes ==
    /\ cfgVersion = PlannerVersion
    /\ \E d \in OverrideIndexDefChoices :
          cfgIndexDefs = [nil |-> FALSE, ImplVersion |-> PlannerVersion,
                          IndexDefs |-> [x \in {<<"i">>} |-> d]]
    /\ \E defs \in InitNodeDefs :
          cfgNodeDefs = [nil |-> FALSE, ImplVersion |-> PlannerVersion,
                         NodeDefs |-> defs]
    /\ cfgPlan = NoPlan
    /\ cfgCas = 0
    /\ srcUp = TRUE
    /\ adminOps = 0
    /\ PlannersIdle
    /\ AliasIdle /\ RebalIdle /\ LoopIdle
    /\ VLiteIdle /\ MiscIdle /\ GroupIdle /\ SplitIdle

NextNodes ==
    /\ \/ PlannerOnceRead("n1")
       \/ PlannerOnceCommit("n1")
       \/ \E d \in OverrideIndexDefChoices : AdminSetIndexDef(<<"i">>, d)
       \/ \E n \in Nodes : \E d \in NodeDefChoices(n) : AdminSetNodeDef(n, d)
       \/ \E n \in Nodes : AdminRemoveNodeDef(n)
    /\ UNCHANGED <<vliteVars, miscVars, groupVars, splitVars, aliasVars, rebalVars, loopVars>>

SpecNodes == InitNodes /\ [][NextNodes]_vars

\* The Nodes of a PlanPIndex are the translation of the buckets of part
TranslatedFrom(planPIndex, part, nodePlanParams) ==
    /\ DOMAIN planPIndex.Nodes = Range(part.primary) \cup Range(part.replica)
    /\ \A n \in Range(part.primary) : planPIndex.Nodes[n].Priority = 0
    /\ \A i \in 0..(Len(part.replica) - 1) :
          planPIndex.Nodes[part.replica[i + 1]].Priority = i + 1
    /\ \A n \in DOMAIN planPIndex.Nodes :
          LET for == {o \in nodePlanParams :
                         o.node = n /\ o.pindex \in {planPIndex.Name, <<>>}}
          IN  IF for = {}
              THEN planPIndex.Nodes[n].CanRead /\ planPIndex.Nodes[n].CanWrite
              ELSE \E o \in for : /\ planPIndex.Nodes[n].CanRead = o.CanRead
                                  /\ planPIndex.Nodes[n].CanWrite = o.CanWrite

\* One primary and one replica, on two nodes
OnePrimaryOneReplica(planPIndex) ==
    \E a, b \in DOMAIN planPIndex.Nodes :
        /\ a # b
        /\ DOMAIN planPIndex.Nodes = {a, b}
        /\ planPIndex.Nodes[a].Priority = 0
        /\ planPIndex.Nodes[b].Priority = 1

\* C26: the Nodes of every PlanPIndex that BlancePlanPIndexes fills are
\* exactly the nodes of the primary and the replica bucket of the placement:
\* Priority 0 for a primary node, Priority i + 1 for the i-th replica node
\* (from 0), CanRead and CanWrite true unless the indexDef has an override
\* for the node and the PlanPIndex; with NumReplicas = 1 and two nodes each
\* PlanPIndex has one primary and one replica on distinct nodes.
C26_NodesAreTheBuckets ==
    \A p \in Planners :
        plpc[p] = "commit" =>
            LET indexDef == plRead[p].indexDefs.IndexDefs[<<"i">>]
                prev == plRead[p].prev
                layout == CalcNodesLayout(plRead[p].nodeDefs, prev)
            IN  \A name \in DOMAIN plPlan[p].PlanPIndexes :
                    /\ \E tie \in TieOrders :
                          TranslatedFrom(plPlan[p].PlanPIndexes[name],
                              PlanNextPartition(BlancePrevPartition(name, prev, tie),
                                  layout.nodeUUIDsAll, layout.nodeUUIDsToRemove,
                                  ModelConstraints(indexDef)),
                              NodePlanParamsOf(indexDef))
                    /\ (/\ indexDef.replicas = 1
                        /\ layout.nodeUUIDsAll = NodeOrder
                        /\ layout.nodeUUIDsToRemove = <<>>)
                          => OnePrimaryOneReplica(plPlan[p].PlanPIndexes[name])

\* A plan for two nodes and one replica, with overrides: n1 is the primary
\* of both PlanPIndexes, neither readable nor writable for the first
\* PlanPIndex; n2 is the replica with the priority 1, readable only
C26_Witness ==
    /\ plpc["n1"] = "commit"
    /\ Cardinality(DOMAIN plPlan["n1"].PlanPIndexes) = 2
    /\ \A name \in DOMAIN plPlan["n1"].PlanPIndexes :
          plPlan["n1"].PlanPIndexes[name].Nodes =
             [n \in Nodes |->
                 IF n = "n1"
                 THEN [CanRead |-> name # FirstPIndexName,
                       CanWrite |-> name # FirstPIndexName, Priority |-> 0]
                 ELSE [CanRead |-> TRUE, CanWrite |-> FALSE, Priority |-> 1]]


\* ---------------------------------------------------------------------
\* The planner while indexes are dropped, re-created and repartitioned
\* ---------------------------------------------------------------------

\* An index is deleted: its definition is taken out of the IndexDefs
AdminRemoveIndexDef(name) ==
    /\ adminOps < MaxAdminOps
    /\ ~cfgIndexDefs.nil
    /\ name \in DOMAIN cfgIndexDefs.IndexDefs
    /\ cfgIndexDefs' = [cfgIndexDefs EXCEPT !.IndexDefs =
                           [k \in (DOMAIN @) \ {name} |-> @[k]]]
    /\ adminOps' = adminOps + 1
    /\ plQuiet' = ConfigChanged
    /\ UNCHANGED <<cfgVersion, cfgNodeDefs, cfgPlan, cfgCas, srcUp,
                   plpc, plRead, plPlan, plResult>>

\* The definitions index "i" may be given: with the UUID it has or, when it
\* is created again, a new one
DropIndexDefChoices ==
    [name : {<<"i">>}, uuid : {<<"a">>, <<"b">>}, type : {"vlite", "alias"},
     frozen : BOOLEAN, max : {1, 2}, replicas : {0}]

NextDrop ==
    /\ \/ PlannerOnceRead("n1")
       \/ PlannerOnceCommit("n1")
       \/ \E d \in DropIndexDefChoices : AdminSetIndexDef(<<"i">>, d)
       \/ \E name \in IndexNames : AdminRemoveIndexDef(name)
    /\ UNCHANGED <<vliteVars, miscVars, groupVars, splitVars, aliasVars, rebalVars, loopVars>>

SpecDrop == InitPlan /\ [][NextDrop]_vars

\* The indexDefs that have the name and the UUID of the index of a PlanPIndex
IndexDefsOf(indexDefs, planPIndex) ==
    {k \in DOMAIN indexDefs.IndexDefs :
        /\ indexDefs.IndexDefs[k].name = planPIndex.IndexName
        /\ indexDefs.IndexDefs[k].uuid = planPIndex.IndexUUID}

\* The index of the PlanPIndex is not defined any more, or is defined with
\* another UUID
DroppedOrRecreated(indexDefs, planPIndex) == IndexDefsOf(indexDefs, planPIndex) = {}

\* The index of the PlanPIndex is defined, and its source partitions are
\* split into chunks none of which is the one of the PlanPIndex
Repartitioned(indexDefs, planPIndex) ==
    /\ IndexDefsOf(indexDefs, planPIndex) # {}
    /\ \A k \in IndexDefsOf(indexDefs, planPIndex) :
          LET indexDef == indexDefs.IndexDefs[k]
          IN  planPIndex.Name \notin
                 DOMAIN PlannerChunks[<<indexDef.name, indexDef.uuid, indexDef.max>>]

\* The index of the PlanPIndex is defined as plan-frozen
FrozenIndex(indexDefs, planPIndex) ==
    \E k \in IndexDefsOf(indexDefs, planPIndex) : indexDefs.IndexDefs[k].frozen

\* Every PlanPIndex of the plan p has calculated belongs to an IndexDef it
\* has read
PlanBelongs(p) ==
    \A name \in DOMAIN plPlan[p].PlanPIndexes :
        IndexDefsOf(plRead[p].indexDefs, plPlan[p].PlanPIndexes[name]) # {}

\* C28 as claimed: every PlanPIndex in the output of CalcPlan belongs to an
\* IndexDef of the current IndexDefs with the same name and UUID; the
\* PlanPIndexes of the previous plan whose index was dropped, re-created
\* with a new UUID or repartitioned into different chunks are not in the new
\* plan.
C28_PlanFollowsIndexDefs ==
    \A p \in Planners :
        plpc[p] = "commit" =>
            /\ PlanBelongs(p)
            /\ \A name \in DOMAIN plRead[p].prev.PlanPIndexes :
                  (\/ DroppedOrRecreated(plRead[p].indexDefs,
                                         plRead[p].prev.PlanPIndexes[name])
                   \/ Repartitioned(plRead[p].indexDefs,
                                    plRead[p].prev.PlanPIndexes[name]))
                     => name \notin DOMAIN plPlan[p].PlanPIndexes

\* C28, amended: the PlanPIndexes of a repartitioned index are out of the
\* new plan when the index is not plan-frozen; those of a plan-frozen index
\* are in the new plan as they were, whatever chunks its definition gives.
C28_PlanFollowsUnfrozenIndexDefs ==
    \A p \in Planners :
        plpc[p] = "commit" =>
            /\ PlanBelongs(p)
            /\ \A name \in DOMAIN plRead[p].prev.PlanPIndexes :
                  LET planPIndexPrev == plRead[p].prev.PlanPIndexes[name]
                  IN  /\ DroppedOrRecreated(plRead[p].indexDefs, planPIndexPrev)
                         => name \notin DOMAIN plPlan[p].PlanPIndexes
                      /\ (/\ Repartitioned(plRead[p].indexDefs, planPIndexPrev)
                          /\ ~FrozenIndex(plRead[p].indexDefs, planPIndexPrev))
                         => name \notin DOMAIN plPlan[p].PlanPIndexes
                      /\ FrozenIndex(plRead[p].indexDefs, planPIndexPrev)
                         => /\ name \in DOMAIN plPlan[p].PlanPIndexes
                            /\ plPlan[p].PlanPIndexes[name] = planPIndexPrev

\* The planner has planned index "i" anew after it was created again with
\* a new UUID as a plan-frozen index: nothing of the previous plan, which
\* had it in two PlanPIndexes, is in the new plan
C28_Witness ==
    /\ plpc["n1"] = "commit"
    /\ Cardinality(DOMAIN plRead["n1"].prev.PlanPIndexes) >= 2
    /\ <<"i">> \in DOMAIN plRead["n1"].indexDefs.IndexDefs
    /\ plRead["n1"].indexDefs.IndexDefs[<<"i">>].uuid = <<"b">>
    /\ plRead["n1"].indexDefs.IndexDefs[<<"i">>].frozen
    /\ \A name \in DOMAIN plRead["n1"].prev.PlanPIndexes :
          /\ plRead["n1"].prev.PlanPIndexes[name].IndexName = <<"i">>
             => name \notin DOMAIN plPlan["n1"].PlanPIndexes


\* ---------------------------------------------------------------------
\* assignPartition under any step the orchestrator may give it
\* ---------------------------------------------------------------------

\* How many steps the rebalancer stores in a run of the model
MaxRebalSteps == 2

\* The steps: a state for a node, and the operation that brings it there
RebalSteps ==
    {[node |-> n, state |-> so[1], op |-> so[2]] :
        n \in Nodes,
        so \in {<<"primary", "add">>, <<"replica", "add">>, <<"primary", "promote">>,
                <<"replica", "demote">>, <<"", "del">>}}

\* The partitions a step may name: those of the stored plan and of
\* r.endPlanPIndexes
RebalPartitions ==
    (IF cfgPlan.nil THEN {} ELSE DOMAIN cfgPlan.PlanPIndexes)
        \cup DOMAIN rEnd.PlanPIndexes

\* The orchestrator calls assignPartition with a step
AssignPartitionCall ==
    /\ rpc = "moves"
    /\ cfgCas <= MaxRebalSteps
    /\ \E partition \in RebalPartitions, step \in RebalSteps :
          AssignPartition(partition, step)
    /\ UNCHANGED <<rBeg, rEnd, rMoves, cfgVars, planVars>>

NextAssign ==
    /\ \/ RunRebalancer
       \/ AssignPartitionCall
       \/ AssignPartitionWrite
    /\ UNCHANGED <<vliteVars, miscVars, groupVars, splitVars, aliasVars, loopVars>>

SpecAssign == InitRebal /\ [][NextAssign]_vars

\* currStates has a state for the node and the partition
HoldsCurrState(partition, node) ==
    /\ <<partition, node>> \in DOMAIN rCurr
    /\ rCurr[<<partition, node>>].state # ""

\* The plan has the node in the Nodes of the PlanPIndex of the partition
HoldsInPlan(planPIndexes, partition, node) ==
    /\ ~planPIndexes.nil
    /\ partition \in DOMAIN planPIndexes.PlanPIndexes
    /\ node \in DOMAIN planPIndexes.PlanPIndexes[partition].Nodes

\* The step has ended with an error, the last of rErrors, and the stored
\* plan is as it was
Rejected ==
    /\ rpc' = "done"
    /\ Len(rErrors') = Len(rErrors) + 1
    /\ rErrors'[Len(rErrors')] # ""
    /\ cfgPlan' = cfgPlan /\ cfgCas' = cfgCas

\* C29: a step with the op "add" for a partition and a node is rejected with
\* an error when the slot is not empty, that is when currStates has a state
\* for the node and the partition or the stored PlanPIndex has the node in
\* its Nodes; the stored plan is then unchanged.
C29_AddNeedsEmptySlot ==
    [][/\ rpc = "moves" =>
             \A partition \in RebalPartitions, step \in RebalSteps :
                (AssignPartition(partition, step) /\ step.op = "add") =>
                    /\ HoldsCurrState(partition, step.node)
                          => /\ Rejected
                             /\ rErrors'[Len(rErrors')] = ErrOpWasAdd
                             /\ rCurr' = rCurr
                    /\ HoldsInPlan(cfgPlan, partition, step.node)
                          => \/ Rejected
                             \/ /\ rpc' = "write"
                                /\ rStep'.planPIndexes = cfgPlan
                                /\ cfgPlan' = cfgPlan
       /\ (/\ rpc = "write"
           /\ rStep.op = "add"
           /\ HoldsInPlan(rStep.planPIndexes, rStep.partition, rStep.node))
             => /\ Rejected
                /\ rErrors'[Len(rErrors')] = ErrAlreadyExists]_vars

\* An add for a node that currStates has a state for was rejected: the
\* step before it had added the node to the PlanPIndex, which it still has
C29_Witness ==
    /\ rpc = "done"
    /\ rErrors = <<ErrOpWasAdd>>
    /\ cfgCas = 2
    /\ \E k \in DOMAIN rCurr :
          /\ rCurr[k].op = "add"
          /\ HoldsInPlan(cfgPlan, k[1], k[2])
          /\ cfgPlan.PlanPIndexes[k[1]].UUID = NewUUID([by |-> "mcp", cas |-> 1], k[1])

\* An add for a node that the stored PlanPIndex has, with nothing in
\* currStates for it before, was rejected
WitnessAddInPlan ==
    /\ rpc = "done"
    /\ rErrors = <<ErrAlreadyExists>>
    /\ cfgCas = 1
    /\ \E k \in DOMAIN rCurr : rCurr[k].op = "add" /\ HoldsInPlan(cfgPlan, k[1], k[2])


\* The step of rStep has been stored
StepStored == rpc = "write" /\ cfgCas' = cfgCas + 1

\* The PlanPIndex a step works on: the one the plan has for the partition,
\* or the one of r.endPlanPIndexes without its Nodes
StepPlanPIndex(planPIndexes, partition) ==
    IF partition \in DOMAIN planPIndexes.PlanPIndexes
    THEN planPIndexes.PlanPIndexes[partition]
    ELSE [rEnd.PlanPIndexes[partition] EXCEPT !.Nodes = NoPlanPIndexes]

\* A PlanPIndex without its UUID and its Nodes
BesidesNodes(planPIndex) == [planPIndex EXCEPT !.UUID = <<>>, !.Nodes = <<>>]

\* The UUIDs of a plan and of its PlanPIndexes
PlanUUIDs(planPIndexes) ==
    {planPIndexes.PlanPIndexes[n].UUID : n \in DOMAIN planPIndexes.PlanPIndexes}
        \cup (IF "UUID" \in DOMAIN planPIndexes THEN {planPIndexes.UUID} ELSE {})

\* What the step has done to the entry of its node
NodeEntryChanged(was, now, step) ==
    IF step.op = "add"
    THEN step.node \notin DOMAIN was.Nodes /\ step.node \in DOMAIN now.Nodes
    ELSE IF step.op = "del"
    THEN step.node \in DOMAIN was.Nodes /\ step.node \notin DOMAIN now.Nodes
    ELSE /\ step.node \in DOMAIN was.Nodes
         /\ step.node \in DOMAIN now.Nodes
         /\ now.Nodes[step.node].Priority =
               IF step.state = "replica" THEN Cardinality(DOMAIN was.Nodes) ELSE 0

\* C30: a step that assignPartition has stored changes, in the stored plan,
\* the PlanPIndex it names and nothing else: the entry of its node in the
\* Nodes (made for add, taken out for del, replaced otherwise), the UUID of
\* that PlanPIndex, which is a new one, and the UUID of the collection; every
\* other PlanPIndex and every other entry of the Nodes of the PlanPIndex,
\* its priority included, is as it was.
C30_StepChangesItsEntryOnly ==
    [][StepStored =>
          LET was == StepPlanPIndex(cfgPlan, rStep.partition)
              now == cfgPlan'.PlanPIndexes[rStep.partition]
          IN  /\ DOMAIN cfgPlan'.PlanPIndexes =
                    DOMAIN cfgPlan.PlanPIndexes \cup {rStep.partition}
              /\ \A name \in DOMAIN cfgPlan.PlanPIndexes \ {rStep.partition} :
                    cfgPlan'.PlanPIndexes[name] = cfgPlan.PlanPIndexes[name]
              /\ cfgPlan'.ImplVersion = cfgPlan.ImplVersion
              /\ cfgPlan'.Warnings = cfgPlan.Warnings
              /\ BesidesNodes(now) = BesidesNodes(was)
              /\ now.UUID \notin PlanUUIDs(cfgPlan)
              /\ cfgPlan'.UUID \notin PlanUUIDs(cfgPlan)
              /\ \A m \in Nodes \ {rStep.node} :
                    /\ m \in DOMAIN now.Nodes <=> m \in DOMAIN was.Nodes
                    /\ m \in DOMAIN was.Nodes => now.Nodes[m] = was.Nodes[m]
              /\ NodeEntryChanged(was, now, rStep)]_vars

\* Two steps have been stored for one of two PlanPIndexes that the planner
\* had put on n1: n2 was added as its primary, then n1 was taken out; the
\* other PlanPIndex is as the planner made it
C30_Witness ==
    /\ cfgCas = 3
    /\ rErrors = <<>>
    /\ \E a, b \in DOMAIN cfgPlan.PlanPIndexes :
          /\ a # b
          /\ DOMAIN cfgPlan.PlanPIndexes = {a, b}
          /\ cfgPlan.PlanPIndexes[a].Nodes =
                [n \in {"n2"} |-> [CanRead |-> TRUE, CanWrite |-> TRUE, Priority |-> 0]]
          /\ cfgPlan.PlanPIndexes[a].UUID = NewUUID([by |-> "mcp", cas |-> 2], a)
          /\ cfgPlan.PlanPIndexes[b] = rBeg.PlanPIndexes[b]
          /\ DOMAIN cfgPlan.PlanPIndexes[b].Nodes = {"n1"}
          /\ rCurr = [k \in {<<a, "n1">>, <<a, "n2">>} |->
                         IF k[2] = "n1" THEN [state |-> "", op |-> "del"]
                         ELSE [state |-> "primary", op |-> "add"]]


\* ---------------------------------------------------------------------
\* The rebalancer and its errors
\* ---------------------------------------------------------------------

\* assignPartition is about to write a plan that updatePlanPIndexes has
\* made without error, and another writer has stored a plan since the read
\* of the step
CasLost ==
    /\ rpc = "write"
    /\ ~CasMatches(rStep.cas)
    /\ updatePlanPIndexes(rStep.planPIndexes, rStep.partition, rStep.node,
                          rStep.state, rStep.op,
                          NewUUID([by |-> "mcp", cas |-> rStep.cas],
                                  rStep.partition)).err = ""

\* C31: when the CAS write of a step fails because another writer has
\* changed PlanPIndexes between the read and the write of the step, the step
\* is tried again with a fresh read; the CAS loss is not reported to the
\* orchestrator as a failed step.
C31_CasLossIsRetried ==
    [][CasLost => rErrors' = rErrors /\ rpc' # "done"]_vars

\* runIndex: what it returns once the progress channel is drained
runIndexReturn ==
    IF rErrors = <<>> THEN [changed |-> TRUE, err |-> ""]
    ELSE IF rErrors[1] = ErrNoPartitions THEN [changed |-> FALSE, err |-> rErrors[1]]
    ELSE [changed |-> TRUE, err |-> rErrors[1]]

\* run: what it returns after runIndex: the error of runIndex is logged
runReturn == [changed |-> runIndexReturn.changed, err |-> ""]

\* runRebalancer has ended: what it returns, the error of PlannerGetPlan or
\* what run returns
runRebalancerReturn ==
    IF rBeg = <<>> THEN [changed |-> FALSE, err |-> rErrors[1]] ELSE runReturn

\* A step of the rebalancer has failed
StepFailed ==
    /\ rpc = "done"
    /\ rBeg # <<>>
    /\ rErrors # <<>>
    /\ rErrors[1] # ErrNoPartitions

\* C32: when an assignment step fails with a hard error, no further step is
\* issued for the index and runRebalancer returns that error to its caller
\* rather than success.
C32_StepErrorIsReturned ==
    StepFailed =>
        /\ rStep = NoStep
        /\ runRebalancerReturn.err = rErrors[1]


\* C33: in every plan the rebalancer writes, the priority tells the state: a
\* node assigned in the state "primary" has Priority 0 and a node assigned
\* in the state "replica" has Priority >= 1, the first step on a PlanPIndex
\* with an empty node map included.
C33_PriorityEncodesState ==
    [][(StepStored /\ rStep.op # "del") =>
          LET node == cfgPlan'.PlanPIndexes[rStep.partition].Nodes[rStep.node]
          IN  /\ rStep.state = "primary" => node.Priority = 0
              /\ rStep.state = "replica" => node.Priority >= 1]_vars


\* currStates agrees with the stored plan: a node for which it has a state
\* is in the Nodes of the stored PlanPIndex
CurrStatesAgree ==
    \A k \in DOMAIN rCurr :
        rCurr[k].state # "" => HoldsInPlan(cfgPlan, k[1], k[2])

\* assignPartition has returned an error in this step
StepReturnsError == rpc \in {"moves", "write"} /\ Len(rErrors') > Len(rErrors)

\* C39: a step for which assignPartition returns an error leaves no trace:
\* the stored plan is unchanged and currStates has no record of the step, so
\* that currStates agrees with the steps applied to the stored plan.
C39_FailedStepLeavesNoTrace ==
    [][StepReturnsError => cfgPlan' = cfgPlan /\ CurrStatesAgree']_vars


-----------------------------------------------------------------------------
(* ExponentialBackoffLoop (misc.go). *)

MaxCalls == 5

\* float32 has 24 bits of mantissa
Float32Mantissa == 16777216

\* backoffFactor, a float32, as the fraction num / den it is equal to
BackoffFactors ==
    {[num |-> 1, den |-> 1], [num |-> 3, den |-> 2], [num |-> 2, den |-> 1]}

StartSleeps == {1, 3, 16777217}

MaxSleeps == {2, 5, 33554432}

ProgressValues == {-1, 0, 1}

\* the distance of two neighbouring float32 values at a / b (1 or more)
RECURSIVE UlpFrom(_, _, _)
UlpFrom(a, b, u) ==
    IF a < b * Float32Mantissa * u THEN u ELSE UlpFrom(a, b, 2 * u)

\* int(x), for x the float32 nearest to a / b (ties to the even mantissa);
\* under 2^23 a multiple of 1/2 is a float32 and int() drops the half
Float32ToInt(a, b) ==
    LET u  == UlpFrom(a, b, 1)
        d  == b * u
        q  == a \div d
        r  == a % d
        roundUp == (2 * r > d) \/ (2 * r = d /\ q % 2 = 1)
    IN  IF 2 * a < b * Float32Mantissa THEN a \div b
        ELSE (IF roundUp THEN q + 1 ELSE q) * u

\* the increase without the cap
NextSleepUncapped(sleepMS, backoffFactor, maxSleepMS) ==
    Float32ToInt(Float32ToInt(sleepMS, 1) * backoffFactor.num, backoffFactor.den)

\* nextSleepMS = int(float32(nextSleepMS) * backoffFactor), capped at maxSleepMS
NextSleep(sleepMS, backoffFactor, maxSleepMS) ==
    LET n == Float32ToInt(Float32ToInt(sleepMS, 1) * backoffFactor.num,
                          backoffFactor.den)
    IN  IF n > maxSleepMS THEN maxSleepMS ELSE n

\* one turn of the loop, f() returning progress
ExponentialBackoffLoop(progress) ==
    /\ bpc = "call"
    /\ Len(bLog) < MaxCalls
    /\ IF progress < 0
       THEN /\ bpc' = "returned"
            /\ bLog' = Append(bLog, [progress |-> progress, slept |-> FALSE, ms |-> 0])
            /\ UNCHANGED nextSleepMS
       ELSE IF progress > 0
       THEN /\ nextSleepMS' = bArgs.startSleepMS
            /\ bLog' = Append(bLog, [progress |-> progress, slept |-> FALSE, ms |-> 0])
            /\ UNCHANGED bpc
       ELSE /\ bLog' = Append(bLog, [progress |-> progress, slept |-> TRUE,
                                     ms |-> nextSleepMS])
            /\ nextSleepMS' = NextSleep(nextSleepMS, bArgs.backoffFactor,
                                        bArgs.maxSleepMS)
            /\ UNCHANGED bpc
    /\ UNCHANGED bArgs

InitBackoff ==
    /\ bpc = "call"
    /\ bArgs \in [startSleepMS : StartSleeps, backoffFactor : BackoffFactors,
                  maxSleepMS : MaxSleeps]
    /\ nextSleepMS = bArgs.startSleepMS
    /\ bLog = <<>>
    /\ RingIdle /\ AgentsIdle /\ GatherIdle
    /\ VLiteIdle /\ GroupIdle /\ SplitIdle /\ ClusterIdle

NextBackoff ==
    /\ \E progress \in ProgressValues : ExponentialBackoffLoop(progress)
    /\ UNCHANGED <<ringVars, agentVars, gatherVars>>
    /\ UNCHANGED <<vliteVars, groupVars, splitVars, clusterVars>>

SpecBackoff == InitBackoff /\ [][NextBackoff]_vars

\* the calls of f() that made no progress and came right after one that
\* made none either
NoProgressAgain ==
    {i \in 2..Len(bLog) : bLog[i].progress = 0 /\ bLog[i - 1].progress = 0}

\* the calls of f() that made no progress, the first of the loop or right
\* after one with progress
NoProgressFirst ==
    {i \in 1..Len(bLog) : bLog[i].progress = 0 /\ (i = 1 \/ bLog[i - 1].progress > 0)}

\* the loop returns exactly when f() returns a negative value, and sleeps
\* exactly after the calls without progress
ReturnsOnNegative ==
    /\ bpc = "returned" <=> (bLog # <<>> /\ bLog[Len(bLog)].progress < 0)
    /\ \A i \in 1..Len(bLog) :
          /\ bLog[i].progress < 0 => i = Len(bLog)
          /\ bLog[i].slept <=> bLog[i].progress = 0

\* a sleep that starts a run of sleeps lasts startSleepMS
FirstSleepIsStart ==
    \A i \in NoProgressFirst : bLog[i].ms = bArgs.startSleepMS

Min(a, b) == IF a < b THEN a ELSE b

\* C34: as stated: the next sleep is min(prev x backoffFactor, maxSleepMS), in
\* whole milliseconds, a progress call does not sleep and resets the sleep to
\* startSleepMS, the loop returns exactly on a negative value, and no sleep
\* is longer than maxSleepMS.
C34_BackoffAsStated ==
    /\ ReturnsOnNegative
    /\ FirstSleepIsStart
    /\ \A i \in NoProgressAgain :
          bLog[i].ms = Min((bLog[i - 1].ms * bArgs.backoffFactor.num)
                               \div bArgs.backoffFactor.den,
                           bArgs.maxSleepMS)
    /\ \A i \in 1..Len(bLog) : bLog[i].slept => bLog[i].ms <= bArgs.maxSleepMS

\* C34: the next sleep is min(int(float32(prev) x backoffFactor), maxSleepMS),
\* the product being the nearest float32; a progress call does not sleep and
\* resets the sleep to startSleepMS; the loop returns exactly on a negative
\* value; a sleep longer than maxSleepMS is one of startSleepMS.
C34_BackoffSleeps ==
    /\ ReturnsOnNegative
    /\ FirstSleepIsStart
    /\ \A i \in NoProgressAgain :
          /\ bLog[i].ms = Min(Float32ToInt(Float32ToInt(bLog[i - 1].ms, 1)
                                               * bArgs.backoffFactor.num,
                                           bArgs.backoffFactor.den),
                              bArgs.maxSleepMS)
          /\ bLog[i].ms <= bArgs.maxSleepMS
    /\ \A i \in NoProgressFirst :
          bLog[i].ms > bArgs.maxSleepMS => bLog[i].ms = bArgs.startSleepMS

\* two sleeps in a row, the second longer and at the cap, then progress, a
\* sleep of startSleepMS again, and the return
C34_Witness ==
    /\ bpc = "returned"
    /\ Len(bLog) = 5
    /\ 2 \in NoProgressAgain
    /\ bLog[2].ms > bLog[1].ms /\ bLog[2].ms = bArgs.maxSleepMS
    /\ bLog[3].progress > 0
    /\ 4 \in NoProgressFirst


-----------------------------------------------------------------------------
(* MsgRing (msg_ring.go). *)

MaxWrites == 4

\* the inner io.Writer given to NewMsgRing: nil or a writer
InnerWriters == {"nil", "w"}

RingSizes == -1..3

\* the p of Write: byte slices, the empty one among them
Payloads == {<<>>, <<1>>, <<2>>, <<1, 2>>}

\* a nil []byte
NilSlice == [nil |-> TRUE]

\* append([]byte(nil), p...): a copy of p, which is nil when p has no bytes
CopyOf(p) == IF Len(p) = 0 THEN NilSlice ELSE [nil |-> FALSE, bytes |-> p]

NewMsgRing(inner, ringSize) ==
    IF inner = "nil" THEN [ring |-> <<>>, err |-> "msg_ring: nil inner io.Writer"]
    ELSE IF ringSize <= 0
    THEN [ring |-> <<>>, err |-> "msg_ring: non-positive ring size"]
    ELSE [ring |-> [Next |-> 0, Msgs |-> [i \in 1..ringSize |-> NilSlice]],
          err |-> ""]

\* Write(p): the ring keeps a copy of p at Next and moves Next on
Write(p) ==
    /\ ring # <<>>
    /\ Len(ringLog) < MaxWrites
    /\ LET next == ring.Next + 1
       IN  ring' = [Next |-> IF next >= Len(ring.Msgs) THEN 0 ELSE next,
                    Msgs |-> [ring.Msgs EXCEPT ![ring.Next + 1] = CopyOf(p)]]
    /\ ringLog' = Append(ringLog, p)
    /\ UNCHANGED <<ringErr, ringOut>>

\* the loop of Messages from index 0 on
RECURSIVE MessagesFromZero(_, _, _)
MessagesFromZero(m, idx, i) ==
    LET n == Len(m.Msgs)
    IN  IF i >= n THEN <<>>
        ELSE (IF m.Msgs[i + 1].nil THEN <<>> ELSE <<m.Msgs[i + 1].bytes>>)
                 \o MessagesFromZero(m, idx, i + 1)

\* the loop of Messages: n slots from idx on, the nil ones left out
RECURSIVE MessagesLoop(_, _, _)
MessagesLoop(m, idx, i) ==
    LET n == Len(m.Msgs)
    IN  IF i >= n THEN <<>>
        ELSE (IF m.Msgs[idx + 1].nil THEN <<>> ELSE <<m.Msgs[idx + 1].bytes>>)
                 \o MessagesLoop(m, IF idx + 1 >= n THEN 0 ELSE idx + 1, i + 1)

\* Messages(): what it returns, and after how many writes it was called
Messages ==
    /\ ring # <<>>
    /\ ringOut' = [rv |-> MessagesLoop(ring, ring.Next, 0), at |-> Len(ringLog)]
    /\ UNCHANGED <<ring, ringErr, ringLog>>

InitRing ==
    /\ \E inner \in InnerWriters, ringSize \in RingSizes :
          /\ ring = NewMsgRing(inner, ringSize).ring
          /\ ringErr = NewMsgRing(inner, ringSize).err
    /\ ringLog = <<>> /\ ringOut = <<>>
    /\ BackoffIdle /\ AgentsIdle /\ GatherIdle
    /\ VLiteIdle /\ GroupIdle /\ SplitIdle /\ ClusterIdle

NextRing ==
    /\ \/ \E p \in Payloads : Write(p)
       \/ Messages
    /\ UNCHANGED <<backoffVars, agentVars, gatherVars>>
    /\ UNCHANGED <<vliteVars, groupVars, splitVars, clusterVars>>

SpecRing == InitRing /\ [][NextRing]_vars

\* the last Min(k, n) payloads of the first k recorded, oldest first
MostRecent(k, n) == SubSeq(ringLog, (IF k > n THEN k - n ELSE 0) + 1, k)

\* seq without its empty payloads
RECURSIVE NonEmptyOf(_)
NonEmptyOf(seq) ==
    IF seq = <<>> THEN <<>>
    ELSE (IF Head(seq) = <<>> THEN <<>> ELSE <<Head(seq)>>) \o NonEmptyOf(Tail(seq))

\* NewMsgRing gave a ring or an error, and Next is an index of Msgs
RingStructure ==
    /\ ringErr # "" <=> ring = <<>>
    /\ ring # <<>> => ring.Next \in 0..(Len(ring.Msgs) - 1)

\* C35: as stated: after k Writes, Messages returns exactly the min(k, n) most
\* recently recorded payloads, oldest first, each equal to the bytes passed
\* to Write; 0 <= Next < n; NewMsgRing rejects a nil writer and a
\* non-positive size.
C35_MessagesAreTheMostRecent ==
    /\ RingStructure
    /\ ringOut # <<>> => ringOut.rv = MostRecent(ringOut.at, Len(ring.Msgs))

\* C35: after k Writes, Messages returns, oldest first, the payloads that
\* have bytes among the min(k, n) most recently recorded; 0 <= Next < n;
\* NewMsgRing rejects a nil writer and a non-positive size.
C35_MessagesAreTheMostRecentWithBytes ==
    /\ RingStructure
    /\ ringOut # <<>> =>
          ringOut.rv = NonEmptyOf(MostRecent(ringOut.at, Len(ring.Msgs)))

\* a ring of two slots was written three times and Messages returned the
\* last two payloads, oldest first
C35_Witness ==
    /\ ring # <<>> /\ Len(ring.Msgs) = 2
    /\ ringLog = <<<<1>>, <<2>>, <<1, 2>>>>
    /\ ringOut # <<>> /\ ringOut.at = 3 /\ ringOut.rv = <<<<2>>, <<1, 2>>>>


-----------------------------------------------------------------------------
(* gocbcoreAgentMap and the callers of fetchAgent (gocbcore_helper.go). *)

MaxAgents == 2

MaxAgentOps == 5

\* the goroutines that call CBPartitions, CBPartitionSeqs, CBStats or closeAgent
AgentCallers == {"c1", "c2"}

\* key := name + ":" + uuid
AgentKeys == {<<"b", "1">>, <<"b", "2">>}

\* am.m.Lock() that would not wait for the holder
MutexIgnored == TRUE

\* am.m is free: am.m.Lock() returns
MutexFree == amLock = "none"

\* Close of agent was started: its goroutine is made, or runs already
CloseStarted(agent) == agent \in amClosing \cup amClosed

\* fetchAgent, as called first by CBPartitions, CBPartitionSeqs and CBStats;
\* created: newAgent returns no error.  The caller has the agent when
\* fetchAgent returns, and uses it after that.
fetchAgent(c, key, created) ==
    /\ cbpc[c] = "idle"
    /\ Len(cbLog) < MaxAgentOps
    /\ MutexFree
    /\ IF key \notin DOMAIN entries /\ ~created
       THEN /\ cbLog' = Append(cbLog, [caller |-> c, key |-> key, agent |-> 0,
                                       op |-> "err", closed |-> FALSE])
            /\ UNCHANGED <<entries, amMade, cbpc, cbAgent>>
       ELSE /\ key \notin DOMAIN entries => Len(amMade) < MaxAgents
            /\ LET agent == IF key \in DOMAIN entries THEN entries[key]
                            ELSE Len(amMade) + 1
               IN  /\ entries' = MapPut(entries, key, agent)
                   /\ amMade' = IF key \in DOMAIN entries THEN amMade
                                ELSE Append(amMade, key)
                   /\ cbAgent' = [cbAgent EXCEPT ![c] = agent]
                   /\ cbLog' = Append(cbLog, [caller |-> c, key |-> key,
                                              agent |-> agent, op |-> "fetch",
                                              closed |-> CloseStarted(agent)])
            /\ cbpc' = [cbpc EXCEPT ![c] = "use"]
    /\ UNCHANGED <<amLock, amClosing, amClosed>>

\* the caller's call on the agent fetchAgent gave it: agent.NumVbuckets() in
\* CBPartitions, agent.StatsEx() in CBPartitionSeqs and CBStats
UseAgent(c) ==
    /\ cbpc[c] = "use"
    /\ cbLog' = Append(cbLog, [caller |-> c, key |-> amMade[cbAgent[c]],
                               agent |-> cbAgent[c], op |-> "use",
                               closed |-> cbAgent[c] \in amClosed])
    /\ cbpc' = [cbpc EXCEPT ![c] = "idle"]
    /\ cbAgent' = [cbAgent EXCEPT ![c] = 0]
    /\ UNCHANGED <<entries, amLock, amMade, amClosing, amClosed>>

\* closeAgent up to its go statement: go am.entries[key].Close().  With no
\* entry for the key closeAgent changes nothing.
closeAgentGo(c, key) ==
    /\ cbpc[c] = "idle"
    /\ Len(cbLog) < MaxAgentOps
    /\ MutexFree
    /\ key \in DOMAIN entries
    /\ amLock' = c
    /\ amClosing' = amClosing \cup {entries[key]}
    /\ cbpc' = [cbpc EXCEPT ![c] = "close"]
    /\ cbAgent' = [cbAgent EXCEPT ![c] = entries[key]]
    /\ cbLog' = Append(cbLog, [caller |-> c, key |-> key, agent |-> entries[key],
                               op |-> "close", closed |-> FALSE])
    /\ UNCHANGED <<entries, amMade, amClosed>>

\* closeAgent from delete(am.entries, key) to its return
closeAgentDelete(c) ==
    /\ cbpc[c] = "close"
    /\ entries' = Del(entries, amMade[cbAgent[c]])
    /\ amLock' = "none"
    /\ cbpc' = [cbpc EXCEPT ![c] = "idle"]
    /\ cbAgent' = [cbAgent EXCEPT ![c] = 0]
    /\ UNCHANGED <<amMade, amClosing, amClosed, cbLog>>

\* the goroutine of closeAgent begins agent.Close()
AgentClose(agent) ==
    /\ agent \in amClosing
    /\ amClosing' = amClosing \ {agent}
    /\ amClosed' = amClosed \cup {agent}
    /\ UNCHANGED <<entries, amLock, amMade, cbpc, cbAgent, cbLog>>

InitAgents ==
    /\ entries = <<>> /\ amLock = "none" /\ amMade = <<>>
    /\ amClosing = {} /\ amClosed = {}
    /\ cbpc = [c \in AgentCallers |-> "idle"]
    /\ cbAgent = [c \in AgentCallers |-> 0]
    /\ cbLog = <<>>
    /\ BackoffIdle /\ RingIdle /\ GatherIdle
    /\ VLiteIdle /\ GroupIdle /\ SplitIdle /\ ClusterIdle

NextAgents ==
    /\ \/ \E c \in AgentCallers, key \in AgentKeys, created \in BOOLEAN :
             fetchAgent(c, key, created)
       \/ \E c \in AgentCallers : UseAgent(c)
       \/ \E c \in AgentCallers, key \in AgentKeys : closeAgentGo(c, key)
       \/ \E c \in AgentCallers : closeAgentDelete(c)
       \/ \E agent \in amClosing : AgentClose(agent)
    /\ UNCHANGED <<backoffVars, ringVars, gatherVars>>
    /\ UNCHANGED <<vliteVars, groupVars, splitVars, clusterVars>>

SpecAgents == InitAgents /\ [][NextAgents]_vars

\* the calls of fetchAgent that returned an agent
Fetches == {i \in 1..Len(cbLog) : cbLog[i].op = "fetch"}

\* fetchAgent calls for a key return the same agent until closeAgent is
\* called for the key, and an agent is made for one key
OneAgentPerKey ==
    /\ \A i, j \in Fetches :
          (i < j /\ cbLog[i].key = cbLog[j].key /\ cbLog[i].agent # cbLog[j].agent)
              => \E k \in i..j : cbLog[k].op = "close" /\ cbLog[k].key = cbLog[i].key
    /\ \A i, j \in Fetches :
          cbLog[i].agent = cbLog[j].agent => cbLog[i].key = cbLog[j].key
    /\ \A k1, k2 \in DOMAIN entries : entries[k1] = entries[k2] => k1 = k2

\* a step of fetchAgent in which newAgent fails
CreationFails ==
    \E c \in AgentCallers, key \in AgentKeys : fetchAgent(c, key, FALSE)

\* a failed creation leaves the map as it was, and closeAgent removes the entry
MapSteps ==
    /\ (CreationFails /\ Len(amMade') = Len(amMade)
          /\ cbLog'[Len(cbLog')].op = "err") => entries' = entries
    /\ \A c \in AgentCallers :
          closeAgentDelete(c) => amMade[cbAgent[c]] \notin DOMAIN entries'

\* C36: as stated: at most one agent per key, fetchAgent calls for a key
\* return the same agent and create at most one until closeAgent is called
\* for the key, a failed creation leaves the map unchanged, closeAgent
\* removes the entry, and the Close of an agent begins after the agent is
\* removed from the map.
C36_CloseAfterRemoval ==
    /\ [](OneAgentPerKey
           /\ \A key \in DOMAIN entries : entries[key] \notin amClosed)
    /\ [][MapSteps]_vars

\* C36: at most one agent per key, fetchAgent calls for a key return the same
\* agent and create at most one until closeAgent is called for the key, a
\* failed creation leaves the map unchanged, closeAgent removes the entry,
\* and fetchAgent never returns an agent whose Close was started: closeAgent
\* starts the Close and removes the entry under the mutex.
C36_NoFetchOfClosingAgent ==
    /\ [](OneAgentPerKey /\ \A i \in Fetches : ~cbLog[i].closed)
    /\ [][MapSteps]_vars

\* an agent was fetched twice for a key, closed and removed, its Close has
\* begun, and the next fetchAgent for the key made another agent
C36_Witness ==
    /\ Len(cbLog) >= 4
    /\ cbLog[1].op = "fetch" /\ cbLog[2].op = "fetch"
    /\ cbLog[1].key = cbLog[2].key /\ cbLog[1].agent = cbLog[2].agent
    /\ cbLog[1].caller # cbLog[2].caller
    /\ \E i \in 3..Len(cbLog) :
          /\ cbLog[i].op = "fetch" /\ cbLog[i].key = cbLog[1].key
          /\ cbLog[i].agent # cbLog[1].agent
    /\ cbLog[1].agent \in amClosed

\* C40: no caller uses a pooled agent after its Close has been started: each
\* call on an agent by CBPartitions, CBPartitionSeqs or CBStats comes before
\* the Close of that agent begins.
C40_NoUseAfterClose ==
    \A i \in 1..Len(cbLog) : cbLog[i].op = "use" => ~cbLog[i].closed


-----------------------------------------------------------------------------
(* VLiteGatherer.Count and VLiteGatherer.Query (pindex_impl_vlite.go). *)

MaxItems == 1

\* the goroutines of a call: 1 is for a local VLite, 2 for a remote client;
\* the local ones are started first
GatherWorkers == {1, 2}

IsLocal(w) == w = 1

\* the error of worker w
GatherErr(w) == IF w = 1 THEN "e1" ELSE "e2"

\* totalErr = err
TotalErrSet(totalErr, err) == err

\* a goroutine of Count: its count t or its error, added under totalM
CountWorker(w, t, failed) ==
    /\ vgOp = "Count"
    /\ vgW[w].pc = "run"
    /\ vgW' = [vgW EXCEPT ![w].pc = "closed"]
    /\ IF ~failed
       THEN /\ vgTotal' = [vgTotal EXCEPT !.total = @ + t]
            /\ UNCHANGED vgErrLog
       ELSE /\ vgTotal' = [vgTotal EXCEPT
                              !.totalErr = TotalErrSet(@, GatherErr(w))]
            /\ vgErrLog' = Append(vgErrLog, GatherErr(w))
    /\ UNCHANGED <<vgOp, vgpc, vgIdx, vgCur, vgHeap, vgErrCh, vgRet>>

\* Count: wg.Wait() returns and Count returns total, totalErr
CountReturn ==
    /\ vgOp = "Count"
    /\ vgpc = "wait"
    /\ \A w \in GatherWorkers : vgW[w].pc = "closed"
    /\ vgpc' = "returned"
    /\ vgRet' = [total |-> vgTotal.total, err |-> vgTotal.totalErr]
    /\ UNCHANGED <<vgOp, vgIdx, vgCur, vgHeap, vgW, vgErrCh, vgTotal, vgErrLog>>

\* Query: the goroutine of the next worker is started, and the caller calls
\* Next() of its cursor
QueryOpen ==
    /\ vgOp = "Query"
    /\ vgpc = "open"
    /\ vgCur = 0
    /\ vgW' = [vgW EXCEPT ![vgIdx].pc = "run"]
    /\ vgCur' = vgIdx
    /\ UNCHANGED <<vgOp, vgpc, vgIdx, vgHeap, vgErrCh, vgTotal, vgErrLog, vgRet>>

\* scanCursor.Next() returns: with an item of resultCh (the cursor goes to
\* the heap), or without one when resultCh is closed and empty
QueryNext ==
    /\ vgOp = "Query"
    /\ vgCur # 0
    /\ vgW[vgCur].buf = 1 \/ vgW[vgCur].closed
    /\ IF vgW[vgCur].buf = 1
       THEN /\ vgW' = [vgW EXCEPT ![vgCur].buf = 0]
            /\ vgHeap' = vgHeap \cup {vgCur}
       ELSE UNCHANGED <<vgW, vgHeap>>
    /\ vgCur' = 0
    /\ IF vgpc = "open"
       THEN /\ vgIdx' = vgIdx + 1
            /\ vgpc' = IF vgIdx + 1 \in GatherWorkers THEN "open" ELSE "merge"
       ELSE UNCHANGED <<vgIdx, vgpc>>
    /\ UNCHANGED <<vgOp, vgErrCh, vgTotal, vgErrLog, vgRet>>

\* the merge loop: a cursor is popped, its entry written, and Next() called
QueryPop(w) ==
    /\ vgOp = "Query"
    /\ vgpc = "merge"
    /\ vgCur = 0
    /\ w \in vgHeap
    /\ vgHeap' = vgHeap \ {w}
    /\ vgCur' = w
    /\ vgTotal' = [vgTotal EXCEPT !.total = @ + 1]
    /\ UNCHANGED <<vgOp, vgpc, vgIdx, vgW, vgErrCh, vgErrLog, vgRet>>

\* Query after the merge loop: close(doneCh), the goroutine that eats what
\* scanCursors has left (nothing: the loop ends with no cursors), and the
\* select on errCh
QueryReturn ==
    /\ vgOp = "Query"
    /\ vgpc = "merge"
    /\ vgCur = 0
    /\ vgHeap = {}
    /\ vgpc' = "returned"
    /\ vgRet' = [total |-> vgTotal.total,
                 err |-> IF vgErrCh # <<>> THEN Head(vgErrCh) ELSE ""]
    /\ vgErrCh' = IF vgErrCh # <<>> THEN Tail(vgErrCh) ELSE vgErrCh
    /\ UNCHANGED <<vgOp, vgIdx, vgCur, vgHeap, vgW, vgTotal, vgErrLog>>

\* a worker of Query sends an item on resultCh (of capacity 1); doneCh is
\* open as long as a worker runs
QueryWorkerItem(w) ==
    /\ vgOp = "Query"
    /\ vgW[w].pc = "run"
    /\ vgW[w].left > 0
    /\ vgW[w].buf = 0
    /\ vgpc # "returned"
    /\ vgW' = [vgW EXCEPT ![w].buf = 1, ![w].left = @ - 1, ![w].sent = @ + 1]
    /\ UNCHANGED <<vgOp, vgpc, vgIdx, vgCur, vgHeap, vgErrCh, vgTotal, vgErrLog,
                   vgRet>>

\* a worker of Query fails: errCh <- err.  QueryMainColl of a local VLite
\* can fail after items were sent; a remote client fails before its first
\* item (in Query or in Unmarshal)
QueryWorkerFails(w) ==
    /\ vgOp = "Query"
    /\ vgW[w].pc = "run"
    /\ IsLocal(w) \/ vgW[w].sent = 0
    /\ vgW' = [vgW EXCEPT ![w].pc = "failed", ![w].left = 0]
    /\ vgErrCh' = Append(vgErrCh, GatherErr(w))
    /\ vgErrLog' = Append(vgErrLog, GatherErr(w))
    /\ UNCHANGED <<vgOp, vgpc, vgIdx, vgCur, vgHeap, vgTotal, vgRet>>

\* a worker of Query returns: the deferred close(resultCh)
QueryWorkerCloses(w) ==
    /\ vgOp = "Query"
    /\ vgW[w].pc = "failed" \/ (vgW[w].pc = "run" /\ vgW[w].left = 0)
    /\ vgW' = [vgW EXCEPT ![w].pc = "closed", ![w].closed = TRUE]
    /\ UNCHANGED <<vgOp, vgpc, vgIdx, vgCur, vgHeap, vgErrCh, vgTotal, vgErrLog,
                   vgRet>>

InitGather ==
    /\ vgOp \in {"Count", "Query"}
    /\ vgpc = IF vgOp = "Count" THEN "wait" ELSE "open"
    /\ vgIdx = IF vgOp = "Count" THEN 0 ELSE 1
    /\ vgCur = 0 /\ vgHeap = {}
    /\ \E left \in [GatherWorkers -> 0..MaxItems] :
          vgW = [w \in GatherWorkers |->
                    [pc |-> IF vgOp = "Count" THEN "run" ELSE "off",
                     left |-> IF vgOp = "Count" THEN 0 ELSE left[w],
                     sent |-> 0, buf |-> 0, closed |-> FALSE]]
    /\ vgErrCh = <<>>
    /\ vgTotal = [total |-> 0, totalErr |-> ""]
    /\ vgErrLog = <<>> /\ vgRet = <<>>
    /\ BackoffIdle /\ RingIdle /\ AgentsIdle
    /\ VLiteIdle /\ GroupIdle /\ SplitIdle /\ ClusterIdle

NextGather ==
    /\ \/ \E w \in GatherWorkers, t \in 0..MaxItems, failed \in BOOLEAN :
             CountWorker(w, t, failed)
       \/ CountReturn
       \/ QueryOpen
       \/ QueryNext
       \/ \E w \in GatherWorkers : QueryPop(w)
       \/ QueryReturn
       \/ \E w \in GatherWorkers : QueryWorkerItem(w)
       \/ \E w \in GatherWorkers : QueryWorkerFails(w)
       \/ \E w \in GatherWorkers : QueryWorkerCloses(w)
    /\ UNCHANGED <<backoffVars, ringVars, agentVars>>
    /\ UNCHANGED <<vliteVars, groupVars, splitVars, clusterVars>>

SpecGather == InitGather /\ [][NextGather]_vars

\* C37: a gathered Query or Count in which one or more workers fail returns
\* a non-nil error, the first one observed among the workers, and when Query
\* has returned no producer goroutine goes on running.
C37_GatherReturnsFirstError ==
    vgRet # <<>> =>
        /\ vgErrLog # <<>> => vgRet.err = vgErrLog[1]
        /\ vgErrLog = <<>> => vgRet.err = ""
        /\ vgOp = "Query" => \A w \in GatherWorkers : vgW[w].pc = "closed"


\* C38: each consistency-wait request is completed exactly once: its done
\* channel is closed at most once and gets at most one error, whatever the
\* order of batch commits, Close or Rollback with the goroutine that drains
\* the queues, and feed calls on partition handles obtained before the close
\* (a second close of DoneCh, or a send on the closed DoneCh, panics).
C38_CompletedExactlyOnce ==
    /\ panicked # "close of closed channel"
    /\ panicked # "send on closed channel"

=============================================================================
